---- MODULE Spec2Model ----
(***************************************************************************)
(* Model of the latency-aware request Director of the endpoint picker      *)
(* (pkg/epp/requestcontrol/director.go): HandleRequest with admission,     *)
(* subset filtering, scheduling and request preparation, the weighted      *)
(* model draw, and the response-side handlers that call the latency        *)
(* predictor.                                                              *)
(*                                                                         *)
(* Conventions.  Go strings that the code takes apart or builds            *)
(* (addresses, "addr:port" endpoints) are sequences of one-character       *)
(* strings; names that the code only copies and compares are TLA+ strings. *)
(* A Go pointer / interface / optional value is a sequence of length 0     *)
(* (nil) or 1 (the value).  A Go map is a function whose DOMAIN is the set *)
(* of keys present.                                                        *)
(***************************************************************************)
EXTENDS Integers, Sequences, FiniteSets, TLC

\* ------------------------------------------------------------------ bounds
MaxChunks == 4          \* body chunks of a streamed response
MainChunks == 1         \* body chunks of a response in the request lifecycle
CapChunks == 53         \* body chunks of a long response
MaxInterval == 2        \* largest sampling interval the sampler draws
MaxLatency == 1         \* largest elapsed time (ms) measured between events
MaxPrediction == 1      \* largest latency (ms) the predictor returns
MaxWeight == 2          \* largest target-model weight in the draw inputs
MaxTargets == 3         \* longest TargetModels list in the draw inputs
MaxSubset == 2          \* longest endpoint subset list in request metadata
NumPlugins == 2         \* registered PreRequest / PostResponse plugins
MaxFrames == 2          \* events in one body message of a streamed response
bodyByteLimit == 8      \* bytes one body response may carry

\* ------------------------------------------------------- program constants
subsetHintNamespace == "envoy.lb.subset_hint"
subsetHintKey == "x-gateway-destination-endpoint-subset"
defaultSamplingMean == 50
maxSampledTokens == 50

\* ------------------------------------------------------------ Go strings
Colon == ":"

\* strings.Contains(s, c) for a one-character c
ContainsChar(s, c) == \E i \in 1..Len(s) : s[i] = c

\* index of the first occurrence of c in s, 0 when there is none
IndexChar(s, c) ==
    IF ContainsChar(s, c)
    THEN CHOOSE i \in 1..Len(s) : s[i] = c /\ \A j \in 1..(i - 1) : s[j] # c
    ELSE 0

\* strings.Split(s, ":")[0]: the text before the first colon, all of s when
\* s has no colon
SplitFirst(s) ==
    IF IndexChar(s, Colon) = 0 THEN s ELSE SubSeq(s, 1, IndexChar(s, Colon) - 1)

Digit(d) == CASE d = 0 -> "0" [] d = 1 -> "1" [] d = 2 -> "2" [] d = 3 -> "3"
              [] d = 4 -> "4" [] d = 5 -> "5" [] d = 6 -> "6" [] d = 7 -> "7"
              [] d = 8 -> "8" [] d = 9 -> "9"

\* strconv.Itoa for a non-negative int
RECURSIVE Itoa(_)
Itoa(n) == IF n < 10 THEN <<Digit(n)>> ELSE Itoa(n \div 10) \o <<Digit(n % 10)>>

\* net.JoinHostPort: a host holding a colon or a percent sign is bracketed
JoinHostPort(host, port) ==
    IF ContainsChar(host, Colon) \/ ContainsChar(host, "%")
    THEN <<"[">> \o host \o <<"]", Colon>> \o port
    ELSE host \o <<Colon>> \o port

\* strings.Fields: the prompt is kept as its sequence of words and blanks
\* (" " is a blank); the words are the maximal runs without a blank
RECURSIVE CountWords(_, _)
CountWords(s, inWord) ==
    IF s = << >> THEN 0
    ELSE IF Head(s) = " " THEN CountWords(Tail(s), FALSE)
    ELSE (IF inWord THEN 0 ELSE 1) + CountWords(Tail(s), TRUE)

splitWordsLen(prompt) == CountWords(prompt, FALSE)


\* -------------------------------------------------------------- datastore
Nil == << >>
Some(x) == <<x>>

\* backend/metrics.Metrics: KV-cache use in hundredths, queue sizes

Addr1 == <<"1", "0">>
Addr2 == <<"1", "1">>
Addr6 == <<"f", Colon, "1">>

PodIds == {1, 2}
PodAddress(id) == IF id = 1 THEN Addr1 ELSE Addr6

\* v1alpha2.Criticality values; NilCrit is a nil *Criticality
NilCrit == "nil"
Critical == "Critical"
Standard == "Standard"
Sheddable == "Sheddable"

TargetModel(name, weight) == [Name |-> name, Weight |-> weight]

InferenceModel(crit, targets) ==
    [ModelName |-> "m", Criticality |-> crit, TargetModels |-> targets]

\* the InferenceModel objects the datastore may hold for model "m" in the
\* request lifecycle: every criticality, and TargetModels lists that are
\* empty, unweighted, weighted, with an empty target name, with weights on
\* some targets only, and with a zero total weight
MainModels ==
    { InferenceModel(Critical, << >>),
      InferenceModel(Sheddable, << >>),
      InferenceModel(Sheddable, << TargetModel("a", Nil), TargetModel("b", Nil) >>),
      InferenceModel(Standard, << TargetModel("a", Some(1)), TargetModel("b", Some(2)) >>),
      InferenceModel(Critical, << TargetModel("a", Some(1)), TargetModel("b", Some(2)) >>),
      InferenceModel(NilCrit, << TargetModel("", Some(1)), TargetModel("a", Some(1)) >>),
      InferenceModel(Standard, << TargetModel("a", Some(1)), TargetModel("b", Nil) >>),
      InferenceModel(Critical, << TargetModel("a", Some(0)) >>) }

ModelNames == {"m", "u"}

\* errutil codes returned by HandleRequest; NoError is a nil error, Panic a
\* run-time panic that unwinds the handler, PoolNotSynced the plain error of
\* datastore.PoolGet
NoError == "nil"
BadRequest == "BadRequest"
BadConfiguration == "BadConfiguration"
InferencePoolResourceExhausted == "InferencePoolResourceExhausted"
ServiceUnavailable == "ServiceUnavailable"
Internal == "Internal"
PoolNotSynced == "PoolNotSynced"
Panic == "panic"

VARIABLES
    models,            \* datastore: model name -> registered InferenceModel or Nil
    pods,              \* datastore: pod id -> [Address, Metrics]
    pool,              \* datastore: [synced, TargetPortNumber]
    saturated,         \* what SaturationDetector.IsSaturated returns now
    latencyPredictor,  \* TRUE iff Director.latencyPredictor is non-nil
    reqCtx,            \* handlers.RequestContext of the request
    pc,                \* "new" before HandleRequest, "handled" after it
    step,              \* the step of HandleRequest that was reached last
    err,               \* error returned by HandleRequest
    criticality,       \* requestCriticality computed by HandleRequest
    candidatePods,     \* pods handed to the scheduler
    scheduleRet,       \* what Scheduler.Schedule returned, Nil before the call
    subsetHint,        \* the (address, port) pairs the gateway listed as subset
    randomVal,         \* value returned by r.Int31n in RandomWeightedDraw
    calls,             \* number of calls made to each collaborator
    trainingLog,       \* entries passed to AddTrainingDataBulk, in order
    headersDone,       \* HandleResponseHeaders calls so far
    chunks,            \* HandleResponseBodyChunk calls so far
    bodyChunks,        \* body chunks the model server's response is cut into
    inputs,            \* what the clock, the predictor and the sampler can give
    trainingErr,       \* the last AddTrainingDataBulk call returned an error
    lastPredict,       \* what Predict gave the last response handler
    predictLog,        \* requests passed to makePredictionSafely, in order
    cancelled,         \* the gateway has cancelled the request's context
    events,            \* what the last response handler did, in program order
    returned,          \* the context HandleRequest returned, Nil before it
    responseBody       \* the response body message being processed, or Nil

vars == << models, pods, pool, saturated, latencyPredictor, reqCtx, pc, step, err,
           criticality, candidatePods, scheduleRet, subsetHint, randomVal,
           calls, trainingLog, headersDone, chunks, bodyChunks, inputs, trainingErr, lastPredict, predictLog,
           cancelled, events, returned, responseBody >>

NoCalls ==
    [ModelGet |-> 0, IsSaturated |-> 0, PodGetAll |-> 0, PodList |-> 0,
     Schedule |-> 0, prepareRequest |-> 0, PreRequest |-> 0, PoolGet |-> 0,
     PostResponse |-> 0, Predict |-> 0, AddTrainingDataBulk |-> 0,
     RandomWeightedDraw |-> 0]

ZeroMetrics ==
    [KVCacheUsagePercent |-> 0, WaitingQueueSize |-> 0, RunningQueueSize |-> 0]

\* a rational a/b kept in lowest terms with b > 0 (a Go float64 value)
Rat(a, b) == [num |-> a, den |-> b]
Zero == Rat(0, 1)

\* handlers.RequestContext at stream open: every field has its zero value
NewRequestContext ==
    [Request |-> [Body |-> [modelKind |-> "absent", model |-> "", prompt |-> Nil],
                  Metadata |-> [ns |-> "absent", key |-> "absent", list |-> << >>],
                  RequestId |-> ""],
     Model |-> "",
     ResolvedTargetModel |-> "",
     Prompt |-> << >>,
     SchedulingRequest |-> Nil,
     SchedulingResult |-> Nil,
     TargetPod |-> Nil,
     TargetEndpoint |-> << >>,
     LastSeenMetrics |-> ZeroMetrics,
     RequestReceivedTimestamp |-> 0,
     LastTokenTimestamp |-> 0,
     TTFT |-> 0,
     PredictedTTFT |-> 0,
     GeneratedTokenCount |-> 0,
     TPOTObservations |-> << >>,
     PredictedTPOTObservations |-> << >>,
     AvgTPOT |-> Zero,
     AvgPredictedTPOT |-> Zero,
     TokenSampler |-> Nil,
     ModelServerStreaming |-> FALSE,
     Usage |-> [PromptTokens |-> 0, CompletionTokens |-> 0, TotalTokens |-> 0],
     ResponseSize |-> 0,
     ResponseComplete |-> FALSE,
     respBodyResp |-> << >>]


\* ------------------------------------------------------ RandomWeightedDraw
RECURSIVE SumWeights(_)
SumWeights(targets) ==
    IF targets = << >> THEN 0
    ELSE Head(targets).Weight[1] + SumWeights(Tail(targets))

\* the loop "if randomVal < *model.Weight { return model.Name };
\* randomVal -= *model.Weight", and the final return ""
RECURSIVE DrawWalk(_, _)
DrawWalk(targets, rv) ==
    IF targets = << >> THEN ""
    ELSE IF rv < Head(targets).Weight[1] THEN Head(targets).Name
    ELSE DrawWalk(Tail(targets), rv - Head(targets).Weight[1])

HasNilWeight(targets) == \E i \in 1..Len(targets) : targets[i].Weight = Nil

\* the argument n of the one r.Int31n(n) call the draw makes; 0 when the
\* draw panics on a nil weight before reaching the call
Int31nArg(targets) ==
    IF targets[1].Weight = Nil THEN Len(targets)
    ELSE IF HasNilWeight(targets) THEN 0
    ELSE SumWeights(targets)

\* the values r.Int31n(n) can return; it panics when n <= 0, and then the
\* value is not used (0 stands for "no value")
Int31n(n) == IF n <= 0 THEN {0} ELSE 0..(n - 1)

\* the walk started one past the drawn value
RandomWeightedDrawOffByOne(model, rv) ==
    LET targets == model.TargetModels IN
    IF targets[1].Weight = Nil
    THEN [panic |-> FALSE, name |-> targets[rv + 1].Name]
    ELSE IF HasNilWeight(targets)
    THEN [panic |-> TRUE, name |-> ""]
    ELSE IF SumWeights(targets) <= 0
    THEN [panic |-> TRUE, name |-> ""]
    ELSE [panic |-> FALSE, name |-> DrawWalk(targets, rv + 1)]

\* RandomWeightedDraw(logger, model, seed), with rv the value its r.Int31n
\* call returns.  The result is the returned name, or a panic: a nil
\* *Weight dereferenced by the summing loop, or Int31n called with n <= 0.
RandomWeightedDraw(model, rv) ==
    LET targets == model.TargetModels IN
    IF targets[1].Weight = Nil
    THEN [panic |-> FALSE, name |-> targets[rv + 1].Name]
    ELSE IF HasNilWeight(targets)
    THEN [panic |-> TRUE, name |-> ""]
    ELSE IF SumWeights(targets) <= 0
    THEN [panic |-> TRUE, name |-> ""]
    ELSE [panic |-> FALSE, name |-> DrawWalk(targets, rv)]

\* ------------------------------------------- getCandidatePodsForScheduling
\* schedulingtypes.PodMetrics built by toSchedulerPodMetrics: clones of the
\* pod and of its metrics, values that later datastore updates do not reach
toSchedulerPodMetrics(podSet) ==
    { [Address |-> p.Address, Metrics |-> p.Metrics] : p \in podSet }

PodGetAll(ds) == { ds[id] : id \in DOMAIN ds }

\* datastore.PodList with the predicate of the filter: the pod's address is
\* one of the endpoints
PodList(ds, endpoints) == { pm \in PodGetAll(ds) : pm.Address \in endpoints }

\* the filter failing open: an empty subset list selects every pod
getCandidatePodsFailOpen(ds, requestMetadata) ==
    IF requestMetadata.ns # "map" THEN toSchedulerPodMetrics(PodGetAll(ds))
    ELSE IF requestMetadata.key # "list" THEN toSchedulerPodMetrics(PodGetAll(ds))
    ELSE IF Len(requestMetadata.list) = 0 THEN toSchedulerPodMetrics(PodGetAll(ds))
    ELSE LET endpoints == { SplitFirst(requestMetadata.list[i]) :
                              i \in 1..Len(requestMetadata.list) }
         IN toSchedulerPodMetrics(PodList(ds, endpoints))

\* request metadata: ns says whether metadata[subsetHintNamespace] is
\* absent, present with another dynamic type ("other") or a map ("map"); key
\* says the same of the subset key inside it ("list" for a []any)
getCandidatePodsForScheduling(ds, requestMetadata) ==
    IF requestMetadata.ns # "map" THEN toSchedulerPodMetrics(PodGetAll(ds))
    ELSE IF requestMetadata.key # "list" THEN toSchedulerPodMetrics(PodGetAll(ds))
    ELSE IF Len(requestMetadata.list) = 0 THEN {}
    ELSE LET endpoints == { SplitFirst(requestMetadata.list[i]) :
                              i \in 1..Len(requestMetadata.list) }
         IN toSchedulerPodMetrics(PodList(ds, endpoints))

\* which datastore read the filter makes
CandidateRead(requestMetadata) ==
    IF requestMetadata.ns = "map" /\ requestMetadata.key = "list"
    THEN (IF Len(requestMetadata.list) = 0 THEN "none" ELSE "PodList")
    ELSE "PodGetAll"

\* ------------------------------------------------------------ admitRequest
\* admitRequest with the saturation check applied to Sheddable requests only
admitRequestShedsSheddableOnly(requestCriticality, isSaturated) ==
    IF requestCriticality # Sheddable
    THEN [err |-> NoError, IsSaturated |-> 0]
    ELSE IF isSaturated
    THEN [err |-> InferencePoolResourceExhausted, IsSaturated |-> 1]
    ELSE [err |-> NoError, IsSaturated |-> 1]

\* admitRequest without the bypass for Critical requests
admitRequestWithoutBypass(requestCriticality, isSaturated) ==
    IF isSaturated
    THEN [err |-> InferencePoolResourceExhausted, IsSaturated |-> 1]
    ELSE [err |-> NoError, IsSaturated |-> 1]

\* admitRequest(ctx, requestCriticality) when the saturation detector would
\* answer isSaturated: the error returned and the number of IsSaturated calls
admitRequest(requestCriticality, isSaturated) ==
    IF requestCriticality = Critical
    THEN [err |-> NoError, IsSaturated |-> 0]
    ELSE IF isSaturated
    THEN [err |-> InferencePoolResourceExhausted, IsSaturated |-> 1]
    ELSE [err |-> NoError, IsSaturated |-> 1]


\* ---------------------------------------------------------------- inputs
RequestIds == {"r1"}

Prompt1 == <<"h", " ", " ", "w">>
Prompts == {Prompt1}

\* Request.Body: the dynamic type of body["model"] (absent, a non-string
\* "other", or a string with its value) and what
\* ExtractPromptFromRequestBody finds (Nil: it returns an error)
Bodies ==
    { [modelKind |-> k, model |-> "", prompt |-> pr] :
        k \in {"absent", "other"}, pr \in {Some(p) : p \in Prompts} }
    \cup
    { [modelKind |-> "string", model |-> m, prompt |-> pr] :
        m \in ModelNames, pr \in {Nil} \cup {Some(p) : p \in Prompts} }

Port80 == <<"8", "0">>

\* "<address>:<port>" as the gateway writes a subset entry
Endpoint(address, port) == address \o <<Colon>> \o port

Hint(address, port) == [address |-> address, port |-> port]

\* the request metadata the gateway writes for a subset hint
Metadata(ns, key, hints) ==
    [ns |-> ns, key |-> key,
     list |-> [i \in 1..Len(hints) |-> Endpoint(hints[i].address, hints[i].port)]]

\* (ns, key, hints) of the requests of the request lifecycle
MainHints ==
    { << "absent", "absent", << >> >>,
      << "map", "absent", << >> >>,
      << "map", "list", << >> >>,
      << "map", "list", << Hint(Addr1, Port80) >> >>,
      << "map", "list", << Hint(Addr2, Port80) >> >> }

\* ------------------------------------------------------------- scheduler
ProfileRunResult(targetPod) == [TargetPod |-> targetPod]

SchedulingResult(primary, profiles) ==
    [PrimaryProfileName |-> primary, ProfileResults |-> profiles]

EmptyMap == [n \in {} |-> ProfileRunResult(Nil)]

\* what Scheduler.Schedule may return for a candidate set: an error, or
\* without error a nil result, an empty ProfileResults map, a map without
\* the primary profile, a primary profile without target pod, or a primary
\* profile targeting a candidate (alone or next to a second profile that
\* targets another candidate)
ScheduleReturns(candidates) ==
    { [err |-> TRUE, result |-> Nil], [err |-> FALSE, result |-> Nil],
      [err |-> FALSE, result |-> Some(SchedulingResult("p1", EmptyMap))],
      [err |-> FALSE, result |-> Some(SchedulingResult("p1", "p1" :> ProfileRunResult(Nil)))] }
    \cup
    { [err |-> FALSE,
       result |-> Some(SchedulingResult("p1", "p2" :> ProfileRunResult(Some(c))))] :
        c \in candidates }
    \cup
    { [err |-> FALSE,
       result |-> Some(SchedulingResult("p1", "p1" :> ProfileRunResult(Some(c))))] :
        c \in candidates }
    \cup
    UNION { { [err |-> FALSE,
                result |-> Some(SchedulingResult("p1",
                    ("p1" :> ProfileRunResult(Some(c))) @@ ("p2" :> ProfileRunResult(Some(d)))))] :
                d \in candidates \ {c} } : c \in candidates }

\* ---------------------------------------------------------- prepareRequest
\* the pod the primary profile targets; only used when it exists
PrimaryTargetPod(result) ==
    result.ProfileResults[result.PrimaryProfileName].TargetPod[1]

\* prepareRequest writing the target into the context before it asks for
\* the pool
prepareRequestTargetBeforePool(ctx, result, poolNow) ==
    IF result = Nil \/ DOMAIN result[1].ProfileResults = {}
    THEN [ctx |-> ctx, err |-> Internal, PoolGet |-> 0, PreRequest |-> 0]
    ELSE IF result[1].PrimaryProfileName \notin DOMAIN result[1].ProfileResults
    THEN [ctx |-> ctx, err |-> Panic, PoolGet |-> 0, PreRequest |-> 0]
    ELSE IF result[1].ProfileResults[result[1].PrimaryProfileName].TargetPod = Nil
    THEN [ctx |-> ctx, err |-> Panic, PoolGet |-> 0, PreRequest |-> 0]
    ELSE LET targetPod == PrimaryTargetPod(result[1])
             endpoint == JoinHostPort(targetPod.Address, Itoa(poolNow.TargetPortNumber))
             ctx1 == [ctx EXCEPT !.TargetPod = Some([Address |-> targetPod.Address]),
                                 !.TargetEndpoint = endpoint,
                                 !.SchedulingResult = result]
         IN IF ~poolNow.synced
            THEN [ctx |-> ctx1, err |-> PoolNotSynced, PoolGet |-> 1, PreRequest |-> 0]
            ELSE [ctx |-> ctx1, err |-> NoError, PoolGet |-> 1, PreRequest |-> NumPlugins]

\* prepareRequest(ctx, reqCtx, result) with the pool the datastore holds:
\* the returned context and error, whether PoolGet was called and how many
\* PreRequest plugins ran.  Reading the primary profile of a map that lacks
\* it, or a nil TargetPod, dereferences nil and panics.
prepareRequest(ctx, result, poolNow) ==
    IF result = Nil \/ DOMAIN result[1].ProfileResults = {}
    THEN [ctx |-> ctx, err |-> Internal, PoolGet |-> 0, PreRequest |-> 0]
    ELSE IF result[1].PrimaryProfileName \notin DOMAIN result[1].ProfileResults
    THEN [ctx |-> ctx, err |-> Panic, PoolGet |-> 0, PreRequest |-> 0]
    ELSE IF result[1].ProfileResults[result[1].PrimaryProfileName].TargetPod = Nil
    THEN [ctx |-> ctx, err |-> Panic, PoolGet |-> 0, PreRequest |-> 0]
    ELSE IF ~poolNow.synced
    THEN [ctx |-> ctx, err |-> PoolNotSynced, PoolGet |-> 1, PreRequest |-> 0]
    ELSE LET targetPod == PrimaryTargetPod(result[1])
             endpoint == JoinHostPort(targetPod.Address, Itoa(poolNow.TargetPortNumber))
         IN [ctx |-> [ctx EXCEPT !.TargetPod = Some([Address |-> targetPod.Address]),
                                 !.TargetEndpoint = endpoint,
                                 !.SchedulingResult = result],
             err |-> NoError, PoolGet |-> 1, PreRequest |-> NumPlugins]


\* ----------------------------------------------------------- HandleRequest
Inc(c, f, n) == [c EXCEPT ![f] = @ + n]

\* an error return handing back no context
returnedContextDroppedOnError(ctx, e) == IF e = NoError THEN Some(ctx) ELSE Nil

\* the first result of every "return reqCtx, err": the context pointer the
\* caller passed in, whatever the error
returnedContext(ctx, e) == Some(ctx)

\* every "return reqCtx, err" of HandleRequest (and a panic unwinding it,
\* which returns nothing)
Return(ctx, e, st, crit, cand, sched, rv, c) ==
    /\ reqCtx' = ctx
    /\ err' = e
    /\ step' = st
    /\ criticality' = crit
    /\ candidatePods' = cand
    /\ scheduleRet' = sched
    /\ randomVal' = rv
    /\ calls' = c
    /\ pc' = "handled"
    /\ returned' = IF e = Panic THEN Nil ELSE returnedContext(ctx, e)
    /\ UNCHANGED << models, pods, pool, saturated, latencyPredictor,
                    trainingLog, headersDone, chunks, bodyChunks, inputs, trainingErr, lastPredict, predictLog,
                    cancelled, events, responseBody >>

\* the type assertion's ok result not checked
parseModelUnchecked(body) ==
    IF body.modelKind = "string"
    THEN [Model |-> body.model, ok |-> TRUE]
    ELSE [Model |-> "", ok |-> TRUE]

\* reqCtx.Model, ok = requestBodyMap["model"].(string)
parseModel(body) ==
    IF body.modelKind = "string"
    THEN [Model |-> body.model, ok |-> TRUE]
    ELSE [Model |-> "", ok |-> FALSE]

\* datastore.ModelGet, and the default InferenceModel for an unknown name
ModelGet(ds, name) == IF name \in DOMAIN ds THEN ds[name] ELSE Nil

modelObjFor(ds, name) ==
    IF ModelGet(ds, name) = Nil
    THEN [ModelName |-> name, Criticality |-> Sheddable, TargetModels |-> << >>]
    ELSE ModelGet(ds, name)[1]

\* requestCriticality: Standard unless the model names one
requestCriticalityOf(modelObj) ==
    IF modelObj.Criticality # NilCrit THEN modelObj.Criticality ELSE Standard

\* the scheduler's error ignored: prepareRequest runs on whatever came back
afterScheduleIgnoringError(ctx, ret, poolNow) ==
    LET pr == prepareRequest(ctx, ret.result, poolNow)
    IN [ctx |-> pr.ctx, err |-> pr.err, st |-> "prepare",
        prepareRequest |-> 1, PoolGet |-> pr.PoolGet, PreRequest |-> pr.PreRequest]

\* steps 3 and 4 once Schedule has returned: the scheduler's error is
\* wrapped, otherwise prepareRequest runs
afterSchedule(ctx, ret, poolNow) ==
    IF ret.err
    THEN [ctx |-> ctx, err |-> InferencePoolResourceExhausted, st |-> "schedule",
          prepareRequest |-> 0, PoolGet |-> 0, PreRequest |-> 0]
    ELSE LET pr == prepareRequest(ctx, ret.result, poolNow)
         IN [ctx |-> pr.ctx, err |-> pr.err, st |-> "prepare",
             prepareRequest |-> 1, PoolGet |-> pr.PoolGet, PreRequest |-> pr.PreRequest]

\* the empty-candidates check left out
noCandidatesUnchecked(cand) == FALSE

\* len(candidatePods) == 0
noCandidates(cand) == Cardinality(cand) = 0

\* step 3 once the candidate pods are built: the empty check, Schedule on
\* the candidates, then step 4
scheduleOn(ctx, crit, cand, rv, c1) ==
    IF noCandidates(cand)
    THEN Return(ctx, ServiceUnavailable, "candidates", crit, cand, Nil, rv, c1)
    ELSE \E ret \in ScheduleReturns(cand) :
           LET r == afterSchedule(ctx, ret, pool)
               c2 == Inc(Inc(Inc(Inc(c1, "Schedule", 1),
                         "prepareRequest", r.prepareRequest),
                         "PoolGet", r.PoolGet), "PreRequest", r.PreRequest)
           IN Return(r.ctx, r.err, r.st, crit, cand, Some(ret), rv, c2)

\* step 3: candidate pods, Schedule, then step 4.  Where the inputs say
\* stepwise, the step is shown in two parts: it stops when the candidate
\* pods are built (pc = "filtered") and ScheduleStep takes it up.
ScheduleAndPrepare(ctx, crit, rv, c) ==
    LET cand == getCandidatePodsForScheduling(pods, ctx.Request.Metadata)
        read == CandidateRead(ctx.Request.Metadata)
        c1 == IF read = "none" THEN c ELSE Inc(c, read, 1)
    IN IF "stepwise" \in DOMAIN inputs
       THEN /\ reqCtx' = ctx
            /\ criticality' = crit
            /\ candidatePods' = cand
            /\ randomVal' = rv
            /\ calls' = c1
            /\ pc' = "filtered"
            /\ UNCHANGED << models, pods, pool, saturated, latencyPredictor,
                            step, err, scheduleRet, trainingLog, headersDone,
                            chunks, bodyChunks, inputs, trainingErr, lastPredict,
                            predictLog, cancelled, events, returned, responseBody >>
       ELSE scheduleOn(ctx, crit, cand, rv, c1)

\* the LLMRequest is assembled, then step 2: admission control
AssembleAndAdmit(ctx, modelObj, prompt, rv, c) ==
    LET crit == requestCriticalityOf(modelObj)
        ctx1 == [ctx EXCEPT !.SchedulingRequest =
                     Some([RequestId |-> ctx.Request.RequestId,
                           TargetModel |-> ctx.ResolvedTargetModel,
                           Prompt |-> prompt])]
        admitted == admitRequest(crit, saturated)
        c1 == Inc(c, "IsSaturated", admitted.IsSaturated)
    IN IF admitted.err # NoError
       THEN Return(ctx1, admitted.err, "admit", crit, {}, Nil, rv, c1)
       ELSE ScheduleAndPrepare(ctx1, crit, rv, c1)

\* the drawn name becomes ResolvedTargetModel and, unless it is empty,
\* replaces body["model"]
applyDraw(ctx, name) ==
    IF name = ""
    THEN [ctx EXCEPT !.ResolvedTargetModel = name]
    ELSE [ctx EXCEPT !.ResolvedTargetModel = name, !.Request.Body.model = name]

\* step 1, second half: model lookup and target-model resolution
Resolve(ctx, prompt) ==
    LET modelObj == modelObjFor(models, ctx.Model)
        c1 == Inc(NoCalls, "ModelGet", 1)
        ctx1 == [ctx EXCEPT !.ResolvedTargetModel = ctx.Model]
    IN IF Len(modelObj.TargetModels) > 0
       THEN \E rv \in Int31n(Int31nArg(modelObj.TargetModels)) :
              LET d == RandomWeightedDraw(modelObj, rv)
                  c2 == Inc(c1, "RandomWeightedDraw", 1)
                  ctx2 == applyDraw(ctx1, d.name)
              IN IF d.panic
                 THEN Return(ctx1, Panic, "resolve", "", {}, Nil, -1, c2)
                 ELSE IF d.name = ""
                 THEN Return(ctx2, BadConfiguration, "resolve", "", {}, Nil, rv, c2)
                 ELSE AssembleAndAdmit(ctx2, modelObj, prompt, rv, c2)
       ELSE AssembleAndAdmit(ctx1, modelObj, prompt, -1, c1)

\* HandleRequest(ctx, reqCtx) for a context carrying the request read from
\* the stream
HandleRequestOn(ctxIn) ==
    LET body == ctxIn.Request.Body
        parsed == parseModel(body)
        ctx1 == [ctxIn EXCEPT !.Model = parsed.Model]
    IN IF ~parsed.ok
       THEN Return(ctx1, BadRequest, "parse", "", {}, Nil, -1, NoCalls)
       ELSE IF body.prompt = Nil
       THEN Return(ctx1, BadRequest, "parse", "", {}, Nil, -1, NoCalls)
       ELSE Resolve(ctx1, body.prompt[1])

HandleRequest ==
    /\ pc = "new"
    /\ \E body \in inputs.bodies, h \in inputs.hints, id \in RequestIds :
         /\ subsetHint' = h[3]
         /\ HandleRequestOn([reqCtx EXCEPT !.Request =
                                [Body |-> body,
                                 Metadata |-> Metadata(h[1], h[2], h[3]),
                                 RequestId |-> id]])

\* ------------------------------------------------------ running average
RECURSIVE GCD(_, _)
GCD(a, b) == IF b = 0 THEN a ELSE GCD(b, a % b)

Abs(a) == IF a < 0 THEN -a ELSE a

\* a/b in lowest terms, b > 0
Norm(a, b) ==
    LET g == GCD(Abs(a), Abs(b))
        sgn == IF b < 0 THEN -1 ELSE 1
    IN Rat(sgn * (a \div g), sgn * (b \div g))

FromInt(n) == Rat(n, 1)
RatAdd(x, y) == Norm(x.num * y.den + y.num * x.den, x.den * y.den)
RatSub(x, y) == Norm(x.num * y.den - y.num * x.den, x.den * y.den)
RatDivInt(x, n) == Norm(x.num, x.den * n)

\* the new value averaged with the current average
calculateRunningAverageHalving(currentAvg, newValue, count) ==
    IF count = 0 THEN Zero
    ELSE IF count = 1 THEN newValue
    ELSE RatDivInt(RatAdd(currentAvg, newValue), 2)

\* calculateRunningAverage(currentAvg, newValue, count), without rounding
calculateRunningAverage(currentAvg, newValue, count) ==
    IF count = 0 THEN Zero
    ELSE IF count = 1 THEN newValue
    ELSE RatAdd(currentAvg, RatDivInt(RatSub(newValue, currentAvg), count))

\* ------------------------------------------------------------ TokenSampler
\* requtil.TokenSampler: the next token count to sample and the number of
\* samples taken
NewTokenSampler(firstInterval) ==
    [nextSampleToken |-> 1 + firstInterval, sampleCount |-> 0]

\* a sampler that goes on sampling after maxSampledTokens samples
ShouldPredictUncapped(sampler, tokenCount) ==
    tokenCount = sampler.nextSampleToken

ShouldPredict(sampler, tokenCount) ==
    tokenCount = sampler.nextSampleToken /\ sampler.sampleCount < maxSampledTokens

RecordPrediction(sampler, tokenCount, interval) ==
    [nextSampleToken |-> tokenCount + interval,
     sampleCount |-> sampler.sampleCount + 1]

\* intervals the sampler's exponential draw can give (rounded up, >= 1):
\* the shortest and a longer one
Intervals == {1, MaxInterval}

\* ---------------------------------------------------------- latency predictor
\* what PredictorInterface.Predict may return: an error, a nil response, or
\* a response whose TTFT and TPOT are each negative, zero or positive, the
\* two differing unless both are zero
PredictReturns ==
    { [kind |-> "err", TTFT |-> 0, TPOT |-> 0],
      [kind |-> "nil", TTFT |-> 0, TPOT |-> 0],
      [kind |-> "ok", TTFT |-> -1, TPOT |-> MaxPrediction],
      [kind |-> "ok", TTFT |-> 0, TPOT |-> 0],
      [kind |-> "ok", TTFT |-> MaxPrediction, TPOT |-> -1] }

PredictionRequest(metrics, prompt, numTokensGenerated) ==
    [KVCachePercentage |-> metrics.KVCacheUsagePercent,
     InputTokenLength |-> splitWordsLen(prompt),
     NumRequestWaiting |-> metrics.WaitingQueueSize,
     NumRequestRunning |-> metrics.RunningQueueSize,
     NumTokensGenerated |-> numTokensGenerated]

TrainingEntry(metrics, prompt, actualTTFT, actualTPOT, numTokensGenerated) ==
    [KVCachePercentage |-> metrics.KVCacheUsagePercent,
     InputTokenLength |-> splitWordsLen(prompt),
     ActualTTFT |-> actualTTFT,
     ActualTPOT |-> actualTPOT,
     NumRequestWaiting |-> metrics.WaitingQueueSize,
     NumRequestRunning |-> metrics.RunningQueueSize,
     NumTokensGenerated |-> numTokensGenerated]

\* a negative prediction handed on as it came
makePredictionUnvalidated(req, predictionType, ret) ==
    IF req.InputTokenLength < 0
    THEN [value |-> 0, failed |-> TRUE, called |-> 0]
    ELSE IF ret.kind = "err" THEN [value |-> 0, failed |-> TRUE, called |-> 1]
    ELSE IF ret.kind = "nil" THEN [value |-> 0, failed |-> TRUE, called |-> 1]
    ELSE LET result == IF predictionType = "TTFT" THEN ret.TTFT ELSE ret.TPOT
         IN IF predictionType \notin {"TTFT", "TPOT"}
            THEN [value |-> 0, failed |-> TRUE, called |-> 1]
            ELSE [value |-> result, failed |-> FALSE, called |-> 1]

\* the result validated for TTFT predictions only
makePredictionValidatingTTFT(req, predictionType, ret) ==
    IF req.InputTokenLength < 0
    THEN [value |-> 0, failed |-> TRUE, called |-> 0]
    ELSE IF ret.kind = "err" THEN [value |-> 0, failed |-> TRUE, called |-> 1]
    ELSE IF ret.kind = "nil" THEN [value |-> 0, failed |-> TRUE, called |-> 1]
    ELSE LET result == IF predictionType = "TTFT" THEN ret.TTFT ELSE ret.TPOT
         IN IF predictionType \notin {"TTFT", "TPOT"}
            THEN [value |-> 0, failed |-> TRUE, called |-> 1]
            ELSE IF result < 0 /\ predictionType = "TTFT"
            THEN [value |-> 0, failed |-> FALSE, called |-> 1]
            ELSE [value |-> result, failed |-> FALSE, called |-> 1]

\* makePredictionSafely(ctx, req, predictionType) when Predict returns ret:
\* the value, whether an error is returned, and whether Predict was called
makePredictionSafely(req, predictionType, ret) ==
    IF req.InputTokenLength < 0
    THEN [value |-> 0, failed |-> TRUE, called |-> 0]
    ELSE IF ret.kind = "err" THEN [value |-> 0, failed |-> TRUE, called |-> 1]
    ELSE IF ret.kind = "nil" THEN [value |-> 0, failed |-> TRUE, called |-> 1]
    ELSE LET result == IF predictionType = "TTFT" THEN ret.TTFT ELSE ret.TPOT
         IN IF predictionType \notin {"TTFT", "TPOT"}
            THEN [value |-> 0, failed |-> TRUE, called |-> 1]
            ELSE IF result < 0 THEN [value |-> 0, failed |-> FALSE, called |-> 1]
            ELSE [value |-> result, failed |-> FALSE, called |-> 1]

\* the primary profile's target pod when the handlers can use it: the
\* scheduling result exists, has the primary profile and a target pod
UsableTarget(ctx) ==
    /\ ctx.SchedulingResult # Nil
    /\ ctx.SchedulingResult[1].PrimaryProfileName
          \in DOMAIN ctx.SchedulingResult[1].ProfileResults
    /\ ctx.SchedulingResult[1].ProfileResults[
          ctx.SchedulingResult[1].PrimaryProfileName].TargetPod # Nil

\* what the last Predict call of a handler gave: "none" when the handler made
\* no call, "bad" for an error, a nil response or a negative value
PredictOutcome(called, ret, predictionType) ==
    IF called = 0 THEN "none"
    ELSE IF ret.kind # "ok" THEN "bad"
    ELSE IF (IF predictionType = "TTFT" THEN ret.TTFT ELSE ret.TPOT) < 0 THEN "bad"
    ELSE "ok"

\* ---------------------------------------------------- HandleResponseHeaders
\* what HandleResponseHeaders does to the predictor and to LastSeenMetrics,
\* in program order: the refresh, then the TTFT prediction
headersEvents(called) ==
    << "LastSeenMetrics" >> \o (IF called = 1 THEN << "Predict" >> ELSE << >>)

HandleResponseHeaders ==
    /\ pc = "handled"
    /\ err # Panic
    /\ headersDone = 0
    /\ chunks = 0
    /\ headersDone' = headersDone + 1
    /\ IF latencyPredictor /\ UsableTarget(reqCtx)
       THEN \E ret \in inputs.predict :
              LET metrics == PrimaryTargetPod(reqCtx.SchedulingResult[1]).Metrics
                  predictionReq == PredictionRequest(metrics, reqCtx.Prompt, 0)
                  p == makePredictionSafely(predictionReq, "TTFT", ret)
              IN /\ reqCtx' = [reqCtx EXCEPT
                                 !.LastSeenMetrics = metrics,
                                 !.PredictedTTFT = IF p.failed THEN 0 ELSE p.value]
                 /\ lastPredict' = PredictOutcome(p.called, ret, "TTFT")
                 /\ predictLog' = Append(predictLog, [type |-> "TTFT", req |-> predictionReq])
                 /\ events' = headersEvents(p.called)
                 /\ calls' = Inc(Inc(calls, "PostResponse", NumPlugins),
                                 "Predict", p.called)
       ELSE /\ reqCtx' = reqCtx
            /\ events' = << >>
            /\ calls' = Inc(calls, "PostResponse", NumPlugins)
            /\ UNCHANGED << lastPredict, predictLog >>
    /\ UNCHANGED << models, pods, pool, saturated, latencyPredictor, pc, step,
                    err, criticality, candidatePods, scheduleRet, subsetHint,
                    randomVal, trainingLog, chunks, bodyChunks, inputs, trainingErr,
                    cancelled, returned, responseBody >>

\* -------------------------------------------------- HandleResponseBodyChunk
\* NumTokensGenerated of a TPOT training entry taken after the increment
tokensBeforeUncorrected(count) == count

\* NumTokensGenerated of a TPOT training entry: GeneratedTokenCount - 1
tokensBefore(count) == count - 1

\* an error of AddTrainingDataBulk ending the handler
trainingErrorReturnedToCaller(failed) == failed

\* whether an error of AddTrainingDataBulk ends the handler: it is only
\* logged, the handler goes on
trainingErrorReturned(failed) == FALSE

\* a latency observed only when the sampler asks for a prediction
shouldObserveSampledOnly(sampler, count) == ShouldPredict(sampler, count)

\* whether the later-token branch appends the inter-token latency to
\* TPOTObservations
shouldObserve(sampler, count) == count = 2 \/ ShouldPredict(sampler, count)

\* the metrics refreshed before the training entry is submitted
chunkEventsRefreshFirst(called) ==
    << "LastSeenMetrics", "AddTrainingDataBulk" >>
        \o (IF called = 1 THEN << "Predict" >> ELSE << >>)

\* what HandleResponseBodyChunk does to the predictor and to
\* LastSeenMetrics, in program order (both branches): the training
\* submission, the prediction if one is made, then the refresh
chunkEvents(called) ==
    << "AddTrainingDataBulk" >>
        \o (IF called = 1 THEN << "Predict" >> ELSE << >>)
        \o << "LastSeenMetrics" >>

\* the first-token branch: TTFT, its training entry, the forced first TPOT
\* prediction (submitted: the context when the entry is submitted)
FirstTokenBranch(ctx, now, ret) ==
    LET ttft == now - ctx.RequestReceivedTimestamp
        ctx1 == [ctx EXCEPT !.TTFT = ttft, !.GeneratedTokenCount = 1]
        entry == TrainingEntry(ctx.LastSeenMetrics, ctx.Prompt, ttft, 0, 0)
        req == PredictionRequest(ctx.LastSeenMetrics, ctx.Prompt, 1)
        p == makePredictionSafely(req, "TPOT", ret)
        v == IF p.failed THEN 0 ELSE p.value
        obs == Append(ctx.PredictedTPOTObservations, v)
    IN [ctx |-> [ctx1 EXCEPT
                   !.PredictedTPOTObservations = obs,
                   !.AvgPredictedTPOT =
                       calculateRunningAverage(ctx.AvgPredictedTPOT, FromInt(v), Len(obs))],
        submitted |-> ctx1, entry |-> entry, Predict |-> p.called, req |-> Some(req)]

\* the later-token branch: inter-token latency, its training entry, and a
\* prediction when the sampler asks for one
NextTokenBranch(ctx, now, ret, interval) ==
    LET interTokenLatency == now - ctx.LastTokenTimestamp
        count == ctx.GeneratedTokenCount + 1
        sampler == ctx.TokenSampler[1]
        observe == shouldObserve(sampler, count)
        tpot == IF observe THEN Append(ctx.TPOTObservations, interTokenLatency)
                ELSE ctx.TPOTObservations
        avg == IF observe
               THEN calculateRunningAverage(ctx.AvgTPOT, FromInt(interTokenLatency), Len(tpot))
               ELSE ctx.AvgTPOT
        entry == TrainingEntry(ctx.LastSeenMetrics, ctx.Prompt, 0, interTokenLatency,
                               tokensBefore(count))
        sampled == ShouldPredict(sampler, count)
        req == PredictionRequest(ctx.LastSeenMetrics, ctx.Prompt, count)
        p == makePredictionSafely(req, "TPOT", ret)
        v == IF p.failed THEN 0 ELSE p.value
        obs == Append(ctx.PredictedTPOTObservations, v)
        ctx1 == [ctx EXCEPT !.GeneratedTokenCount = count,
                            !.TPOTObservations = tpot,
                            !.AvgTPOT = avg]
    IN IF sampled
       THEN [ctx |-> [ctx1 EXCEPT
                        !.PredictedTPOTObservations = obs,
                        !.AvgPredictedTPOT =
                            calculateRunningAverage(ctx.AvgPredictedTPOT, FromInt(v), Len(obs)),
                        !.TokenSampler = Some(RecordPrediction(sampler, count, interval))],
             submitted |-> ctx1, entry |-> entry, Predict |-> p.called, req |-> Some(req)]
       ELSE [ctx |-> ctx1, submitted |-> ctx1, entry |-> entry, Predict |-> 0, req |-> Nil]

\* one body chunk of a request with a usable target: the clock has advanced
\* by elapsed ms since the previous event, Predict (if called) returns ret,
\* the sampler (if it draws) draws interval, AddTrainingDataBulk fails or not
bodyChunk(ctx, metrics, elapsed, ret, interval, trainingFails) ==
    LET now == (IF ctx.GeneratedTokenCount = 0
                THEN ctx.RequestReceivedTimestamp
                ELSE ctx.LastTokenTimestamp) + elapsed
        ctx0 == IF ctx.TokenSampler = Nil
                THEN [ctx EXCEPT !.TokenSampler = Some(NewTokenSampler(interval))]
                ELSE ctx
        isFirstToken == ctx0.TTFT = 0
        b == IF isFirstToken THEN FirstTokenBranch(ctx0, now, ret)
             ELSE NextTokenBranch(ctx0, now, ret, interval)
    IN IF trainingErrorReturned(trainingFails)
       THEN [ctx |-> b.submitted, entry |-> b.entry, Predict |-> 0, req |-> Nil,
             type |-> "TPOT", events |-> << "AddTrainingDataBulk" >>]
       ELSE [ctx |-> [b.ctx EXCEPT !.LastTokenTimestamp = now,
                                   !.LastSeenMetrics = metrics],
             entry |-> b.entry, Predict |-> b.Predict, req |-> b.req,
             type |-> "TPOT", events |-> chunkEvents(b.Predict)]

\* an early return that has already counted the chunk as a token
earlyReturnCountingToken(ctx) ==
    [ctx EXCEPT !.GeneratedTokenCount = @ + 1]

\* the request context as HandleResponseBodyChunk leaves it when it returns
\* early (no predictor, no scheduling result, no target pod): nothing has
\* been written
earlyReturn(ctx) == ctx

\* HandleResponseBodyChunk(ctx, reqCtx) called with the context ctx
HandleResponseBodyChunkOn(ctx) ==
    /\ pc = "handled"
    /\ err # Panic
    /\ headersDone = 1
    /\ chunks < bodyChunks
    /\ chunks' = chunks + 1
    /\ IF latencyPredictor /\ UsableTarget(ctx)
       THEN \E elapsed \in inputs.elapsed[chunks + 1], ret \in inputs.predict,
               interval \in inputs.interval, trainingFails \in inputs.training :
              LET metrics == PrimaryTargetPod(ctx.SchedulingResult[1]).Metrics
                  r == bodyChunk(ctx, metrics, elapsed, ret, interval, trainingFails)
              IN /\ reqCtx' = r.ctx
                 /\ trainingLog' = Append(trainingLog, r.entry)
                 /\ trainingErr' = trainingFails
                 /\ lastPredict' = PredictOutcome(r.Predict, ret, "TPOT")
                 /\ predictLog' = IF r.req = Nil THEN predictLog
                                  ELSE Append(predictLog, [type |-> r.type, req |-> r.req[1]])
                 /\ events' = r.events
                 /\ calls' = Inc(Inc(calls, "AddTrainingDataBulk", 1),
                                 "Predict", r.Predict)
       ELSE /\ reqCtx' = earlyReturn(ctx)
            /\ events' = << >>
            /\ UNCHANGED << trainingLog, calls, trainingErr, lastPredict, predictLog >>
    /\ UNCHANGED << models, pods, pool, saturated, latencyPredictor, pc, step,
                    err, criticality, candidatePods, scheduleRet, subsetHint,
                    randomVal, headersDone, bodyChunks, inputs, cancelled,
                    returned >>

HandleResponseBodyChunk ==
    /\ HandleResponseBodyChunkOn(reqCtx)
    /\ UNCHANGED responseBody

\* ------------------------------------------------------------------ inputs
\* every request body and subset hint; before each body chunk the clock
\* advances by less than a millisecond or by MaxLatency ms; every Predict
\* return, sampler interval and AddTrainingDataBulk outcome
AllInputs ==
    [bodies |-> Bodies, hints |-> MainHints,
     elapsed |-> [i \in 1..MaxChunks |-> {0, MaxLatency}],
     predict |-> PredictReturns,
     interval |-> Intervals, training |-> BOOLEAN]

\* one well-formed request for the registered model, without subset hint
StreamInputs ==
    [AllInputs EXCEPT
       !.bodies = {[modelKind |-> "string", model |-> "m", prompt |-> Some(Prompt1)]},
       !.hints = {<< "absent", "absent", << >> >>}]

\* -------------------------------------------------------------------- Init
Metrics0 == [KVCacheUsagePercent |-> 0,  WaitingQueueSize |-> 0, RunningQueueSize |-> 1]
Metrics1 == [KVCacheUsagePercent |-> 50, WaitingQueueSize |-> 2, RunningQueueSize |-> 1]

PoolValues ==
    { [synced |-> TRUE, TargetPortNumber |-> 8000],
      [synced |-> FALSE, TargetPortNumber |-> 0] }

InitRequest ==
    /\ pc = "new"
    /\ step = "none"
    /\ err = NoError
    /\ criticality = ""
    /\ candidatePods = {}
    /\ scheduleRet = Nil
    /\ randomVal = -1
    /\ calls = NoCalls
    /\ trainingLog = << >>
    /\ trainingErr = FALSE
    /\ lastPredict = "none"
    /\ predictLog = << >>
    /\ headersDone = 0
    /\ chunks = 0
    /\ cancelled = FALSE
    /\ events = << >>
    /\ returned = Nil
    /\ responseBody = Nil

Init ==
    /\ \E o \in MainModels : models = [n \in ModelNames |-> IF n = "m" THEN Some(o) ELSE Nil]
    /\ pods = [id \in PodIds |-> [Address |-> PodAddress(id),
                                  Metrics |-> IF id = 1 THEN Metrics0 ELSE Metrics1]]
    /\ pool \in PoolValues
    /\ saturated \in BOOLEAN
    /\ latencyPredictor \in BOOLEAN
    /\ bodyChunks = MainChunks
    /\ inputs = AllInputs
    /\ InitRequest
    /\ subsetHint = << >>
    /\ reqCtx = NewRequestContext

Next ==
    \/ HandleRequest
    \/ HandleResponseHeaders
    \/ HandleResponseBodyChunk

Spec == Init /\ [][Next]_vars

\* The streamed response of one request: a critical model without target
\* models, one pod, a synced pool, a pool that is not saturated, and a
\* response of MaxChunks body chunks.
InitStream ==
    /\ models = [n \in ModelNames |-> IF n = "m"
                                      THEN Some(InferenceModel(Critical, << >>)) ELSE Nil]
    /\ pods = [id \in {2} |-> [Address |-> PodAddress(id), Metrics |-> Metrics1]]
    /\ pool = [synced |-> TRUE, TargetPortNumber |-> 8000]
    /\ saturated = FALSE
    /\ latencyPredictor \in BOOLEAN
    /\ bodyChunks = MaxChunks
    /\ inputs = StreamInputs
    /\ InitRequest
    /\ subsetHint = << >>
    /\ reqCtx = NewRequestContext

SpecStream == InitStream /\ [][Next]_vars

\* A long response sampled as often as the sampler allows: CapChunks body
\* chunks, every drawn interval 1, a predictor that answers, and the first
\* early chunks (none, one, two or all) arriving within the millisecond of
\* the request.
EarlyChunks == {0, 1, 2, CapChunks}

CapInputs(early) ==
    [StreamInputs EXCEPT
       !.elapsed = [i \in 1..CapChunks |-> IF i <= early THEN {0} ELSE {MaxLatency}],
       !.predict = {[kind |-> "ok", TTFT |-> MaxPrediction, TPOT |-> MaxPrediction]},
       !.interval = {1},
       !.training = {FALSE}]

InitCap ==
    /\ models = [n \in ModelNames |-> IF n = "m"
                                      THEN Some(InferenceModel(Critical, << >>)) ELSE Nil]
    /\ pods = [id \in {2} |-> [Address |-> PodAddress(id), Metrics |-> Metrics1]]
    /\ pool = [synced |-> TRUE, TargetPortNumber |-> 8000]
    /\ saturated = FALSE
    /\ latencyPredictor = TRUE
    /\ bodyChunks = CapChunks
    /\ \E early \in EarlyChunks : inputs = CapInputs(early)
    /\ InitRequest
    /\ subsetHint = << >>
    /\ reqCtx = NewRequestContext

SpecCap == InitCap /\ [][Next]_vars

\* --------------------------------------------------- the sampler's schedule
\* The sampler's random source is seeded from the request's ID, so the
\* intervals it draws for one request are a fixed sequence: seed is that
\* sequence, taken round and round, and Exp(seed, n) is the n-th draw.
Exp(seed, n) == seed[((n - 1) % Len(seed)) + 1]

\* a body chunk in which the sampler, when it draws (on creation, and on
\* each RecordPrediction), draws the next interval of the request's seed
SeededChunk ==
    /\ HandleResponseBodyChunk
    /\ LET old == reqCtx.TokenSampler
           new == reqCtx'.TokenSampler
       IN IF new = Nil THEN TRUE
          ELSE IF old = Nil
          THEN new[1].nextSampleToken = 1 + Exp(inputs.seed, 1)
          ELSE IF new[1].sampleCount > old[1].sampleCount
          THEN new[1].nextSampleToken
                 = reqCtx'.GeneratedTokenCount + Exp(inputs.seed, old[1].sampleCount + 2)
          ELSE TRUE

\* A long response of CapChunks body chunks whose sampler follows a seed of
\* two intervals; the first chunk arrives within the millisecond of the
\* request or later.
InitSampler ==
    /\ models = [n \in ModelNames |-> IF n = "m"
                                      THEN Some(InferenceModel(Critical, << >>)) ELSE Nil]
    /\ pods = [id \in {2} |-> [Address |-> PodAddress(id), Metrics |-> Metrics1]]
    /\ pool = [synced |-> TRUE, TargetPortNumber |-> 8000]
    /\ saturated = FALSE
    /\ latencyPredictor = TRUE
    /\ bodyChunks = CapChunks
    /\ \E early \in {0, 1}, seed \in Intervals \X Intervals :
          inputs = [seed |-> seed]
                     @@ [CapInputs(early) EXCEPT !.interval = Intervals]
    /\ InitRequest
    /\ subsetHint = << >>
    /\ reqCtx = NewRequestContext

NextSampler ==
    \/ HandleRequest
    \/ HandleResponseHeaders
    \/ SeededChunk

SpecSampler == InitSampler /\ [][NextSampler]_vars

\* ------------------------------------------- cancellation and the datastore
\* The streamed response of one request while the gateway may cancel the
\* request's context and the datastore's pod metrics change.
LiveChunks == 2

\* the gateway cancels the context every handler of the request is given
Cancel ==
    /\ ~cancelled
    /\ cancelled' = TRUE
    /\ UNCHANGED << models, pods, pool, saturated, latencyPredictor, reqCtx, pc,
                    step, err, criticality, candidatePods, scheduleRet,
                    subsetHint, randomVal, calls, trainingLog, headersDone,
                    chunks, bodyChunks, inputs, trainingErr, lastPredict,
                    predictLog, events, returned, responseBody >>

Metrics2 == [KVCacheUsagePercent |-> 90, WaitingQueueSize |-> 5, RunningQueueSize |-> 3]

\* the rest of step 3 and step 4 of HandleRequest, on the candidate pods
\* built before
ScheduleStep ==
    /\ pc = "filtered"
    /\ scheduleOn(reqCtx, criticality, candidatePods, randomVal, calls)
    /\ UNCHANGED subsetHint

\* a scheduler pod that holds the datastore's own metrics object
sharedPod(p, address, m) ==
    IF p.Address = address THEN [p EXCEPT !.Metrics = m] ELSE p

\* a pod p built by toSchedulerPodMetrics, after the datastore has stored
\* the metrics m for the pod at address: p holds clones, which the update
\* does not reach
clonedPod(p, address, m) == p

\* the datastore stores the metrics a pod has newly reported; the pods
\* built for the scheduler, in the candidate list and in the scheduling
\* result, are what clonedPod says
PodMetricsRefresh ==
    /\ \E id \in DOMAIN pods :
         \E m \in {Metrics0, Metrics1, Metrics2} \ {pods[id].Metrics} :
           LET after(p) == clonedPod(p, pods[id].Address, m)
               result(r) ==
                   IF r = Nil THEN Nil
                   ELSE LET profiles == r[1].ProfileResults
                        IN Some(SchedulingResult(r[1].PrimaryProfileName,
                             [n \in DOMAIN profiles |->
                                IF profiles[n].TargetPod = Nil THEN profiles[n]
                                ELSE ProfileRunResult(
                                       Some(after(profiles[n].TargetPod[1])))]))
           IN /\ pods' = [pods EXCEPT ![id].Metrics = m]
              /\ candidatePods' = { after(p) : p \in candidatePods }
              /\ scheduleRet' = IF scheduleRet = Nil THEN Nil
                                ELSE Some([scheduleRet[1] EXCEPT !.result = result(@)])
              /\ reqCtx' = [reqCtx EXCEPT !.SchedulingResult = result(@)]
    /\ UNCHANGED << models, pool, saturated, latencyPredictor, pc,
                    step, err, criticality,
                    subsetHint, randomVal, calls, trainingLog, headersDone,
                    chunks, bodyChunks, inputs, trainingErr, lastPredict,
                    predictLog, cancelled, events, returned, responseBody >>

\* a predictor that answers and a training store that accepts
LiveInputs ==
    [StreamInputs EXCEPT
       !.predict = {[kind |-> "ok", TTFT |-> MaxPrediction, TPOT |-> MaxPrediction]},
       !.training = {FALSE}]

InitLive ==
    /\ models = [n \in ModelNames |-> IF n = "m"
                                      THEN Some(InferenceModel(Critical, << >>)) ELSE Nil]
    /\ pods = [id \in {2} |-> [Address |-> PodAddress(id), Metrics |-> Metrics1]]
    /\ pool = [synced |-> TRUE, TargetPortNumber |-> 8000]
    /\ saturated = FALSE
    /\ latencyPredictor = TRUE
    /\ bodyChunks = LiveChunks
    /\ inputs = [stepwise |-> TRUE] @@ LiveInputs
    /\ InitRequest
    /\ subsetHint = << >>
    /\ reqCtx = NewRequestContext

NextLive ==
    \/ HandleRequest
    \/ ScheduleStep
    \/ HandleResponseHeaders
    \/ HandleResponseBodyChunk
    \/ Cancel
    \/ PodMetricsRefresh

SpecLive == InitLive /\ [][NextLive]_vars


\* ------------------------------------------------- the subset filter alone
\* getCandidatePodsForScheduling applied to every metadata shape and pod set:
\* the namespace and the key absent, of another type or present; subset lists
\* of up to MaxSubset entries naming known and unknown addresses.
AllPodIds == {1, 2, 3}
AllPodAddress(id) == IF id = 1 THEN Addr1 ELSE IF id = 2 THEN Addr2 ELSE Addr6

AddrUnknown == <<"9">>
Port9 == <<"9">>

\* addresses a subset entry names: "<address>:<port>" with an address that
\* holds no colon
HintValues ==
    { Hint(a, p) : a \in {Addr1, Addr2, AddrUnknown}, p \in {Port80, Port9} }

RECURSIVE SeqsUpTo(_, _)
SeqsUpTo(S, n) ==
    IF n = 0 THEN { << >> }
    ELSE LET shorter == SeqsUpTo(S, n - 1)
         IN shorter \cup { Append(q, x) : q \in shorter, x \in S }

FilterHints ==
    { << ns, key, hints >> :
        ns \in {"absent", "other", "map"}, key \in {"absent", "other", "list"},
        hints \in SeqsUpTo(HintValues, MaxSubset) }

InitFilter ==
    /\ models = [n \in ModelNames |-> Nil]
    /\ \E ids \in SUBSET AllPodIds :
         pods = [id \in ids |-> [Address |-> AllPodAddress(id), Metrics |-> Metrics0]]
    /\ pool = [synced |-> TRUE, TargetPortNumber |-> 8000]
    /\ saturated = FALSE
    /\ latencyPredictor = TRUE
    /\ bodyChunks = MainChunks
    /\ inputs = AllInputs
    /\ InitRequest
    /\ \E h \in FilterHints :
         /\ (h[2] # "list" => h[3] = << >>)
         /\ (h[1] # "map" => h[2] = "absent")
         /\ subsetHint = h[3]
         /\ reqCtx = [NewRequestContext EXCEPT
                         !.Request.Metadata = Metadata(h[1], h[2], h[3])]

\* candidatePods := d.getCandidatePodsForScheduling(ctx, reqCtx.Request.Metadata)
FilterStep ==
    /\ pc = "new"
    /\ pc' = "filtered"
    /\ candidatePods' = getCandidatePodsForScheduling(pods, reqCtx.Request.Metadata)
    /\ calls' = IF CandidateRead(reqCtx.Request.Metadata) = "none" THEN calls
                ELSE Inc(calls, CandidateRead(reqCtx.Request.Metadata), 1)
    /\ UNCHANGED << models, pods, pool, saturated, latencyPredictor, reqCtx,
                    step, err, criticality, scheduleRet, subsetHint, randomVal,
                    trainingLog, headersDone, chunks, bodyChunks, inputs, trainingErr, lastPredict, predictLog,
                    cancelled, events, returned, responseBody >>

NextFilter == FilterStep

SpecFilter == InitFilter /\ [][NextFilter]_vars

\* ---------------------------------------------------- the weighted draw alone
\* RandomWeightedDraw applied to every TargetModels list of up to MaxTargets
\* targets whose weights are nil or 0..MaxWeight, and every value of its
\* random source.
TargetName(i) == CASE i = 1 -> "a" [] i = 2 -> "b" [] i = 3 -> "c" [] OTHER -> "d"

WeightValues == {Nil} \cup { Some(w) : w \in 0..MaxWeight }

InitDraw ==
    /\ \E t \in { l \in SeqsUpTo(WeightValues, MaxTargets) : Len(l) >= 1 } :
         models = [n \in ModelNames |->
                     IF n = "m"
                     THEN Some(InferenceModel(Standard,
                              [i \in 1..Len(t) |-> TargetModel(TargetName(i), t[i])]))
                     ELSE Nil]
    /\ pods = [id \in PodIds |-> [Address |-> PodAddress(id), Metrics |-> Metrics0]]
    /\ pool = [synced |-> TRUE, TargetPortNumber |-> 8000]
    /\ saturated = FALSE
    /\ latencyPredictor = TRUE
    /\ bodyChunks = MainChunks
    /\ inputs = AllInputs
    /\ InitRequest
    /\ subsetHint = << >>
    /\ reqCtx = [NewRequestContext EXCEPT !.Model = "m"]

\* reqCtx.ResolvedTargetModel = RandomWeightedDraw(logger, modelObj, 0)
DrawStep ==
    /\ pc = "new"
    /\ pc' = "drawn"
    /\ \E rv \in Int31n(Int31nArg(models["m"][1].TargetModels)) :
         LET d == RandomWeightedDraw(models["m"][1], rv)
         IN /\ reqCtx' = IF d.panic THEN reqCtx
                         ELSE [reqCtx EXCEPT !.ResolvedTargetModel = d.name]
            /\ err' = IF d.panic THEN Panic ELSE NoError
            /\ randomVal' = IF d.panic THEN -1 ELSE rv
    /\ calls' = Inc(calls, "RandomWeightedDraw", 1)
    /\ UNCHANGED << models, pods, pool, saturated, latencyPredictor, step,
                    criticality, candidatePods, scheduleRet, subsetHint,
                    trainingLog, headersDone, chunks, bodyChunks, inputs, trainingErr, lastPredict, predictLog,
                    cancelled, events, returned, responseBody >>

NextDraw == DrawStep

SpecDraw == InitDraw /\ [][NextDraw]_vars


\* ------------------------------------------------- response body handling
\* A response body is a sequence of bytes.  A byte is a record: c names the
\* character, and the byte "{" that opens a JSON document carries in obj the
\* value the document denotes.
B(c) == [c |-> c, obj |-> << >>]

Str(chars) == [i \in 1..Len(chars) |-> B(chars[i])]

\* "data: "
streamingRespPrefix == Str(<< "d", "a", "t", "a", ":", " " >>)

\* "[DONE]"
DoneMsg == Str(<< "[", "D", "O", "N", "E", "]" >>)

\* "data: [DONE]"
streamingEndMsg == streamingRespPrefix \o DoneMsg

LF == B("LF")

\* "\n\n", which ends a server-sent event
EventSeparator == << LF, LF >>

\* strings.HasPrefix, strings.TrimPrefix
HasPrefix(s, prefix) ==
    Len(s) >= Len(prefix) /\ SubSeq(s, 1, Len(prefix)) = prefix

TrimPrefix(s, prefix) ==
    IF HasPrefix(s, prefix) THEN SubSeq(s, Len(prefix) + 1, Len(s)) ELSE s

\* strings.Contains
Contains(s, sub) ==
    \E i \in 1..(Len(s) - Len(sub) + 1) : SubSeq(s, i, i + Len(sub) - 1) = sub

\* strings.Split(s, sep) for a non-empty sep: the pieces between the
\* occurrences of sep taken from the left, always at least one piece
RECURSIVE Split(_, _)
Split(s, sep) ==
    LET at == { j \in 1..(Len(s) - Len(sep) + 1) :
                  SubSeq(s, j, j + Len(sep) - 1) = sep }
        i == IF at = {} THEN 0 ELSE CHOOSE j \in at : \A k \in at : j <= k
    IN IF i = 0 THEN << s >>
       ELSE << SubSeq(s, 1, i - 1) >> \o Split(SubSeq(s, i + Len(sep), Len(s)), sep)

\* ---------------------------------------------------------------- JSON
\* A JSON object as the handlers see it: whether it has a member other than
\* usage ("choices"), and its usage member, which is "absent", "null" or an
\* "object" with fields.
JsonObject(choices, kind, fields) ==
    [choices |-> choices, usage |-> [kind |-> kind, fields |-> fields]]

\* the text of a JSON object: the opening brace, one byte for each member
\* and field, the closing brace; a text that is not in the form json.Marshal
\* writes holds insignificant white space
jsonText(canonical, value) ==
    LET members == (IF value.choices THEN 1 ELSE 0)
                     + (IF value.usage.kind = "absent" THEN 0
                        ELSE 1 + Cardinality(DOMAIN value.usage.fields))
    IN << [c |-> "{", obj |-> << value >>] >>
         \o (IF canonical THEN << >> ELSE << B(" ") >>)
         \o [i \in 1..members |-> B("m")]
         \o << B("}") >>

\* json.Marshal of an object
jsonMarshal(value) == jsonText(TRUE, value)

\* json.Unmarshal of data into an object: white space around the document
\* is skipped; anything that is not one whole JSON object is an error
jsonUnmarshal(data) ==
    LET solid == { i \in 1..Len(data) : data[i].c \notin {" ", "LF"} }
        t == IF solid = {} THEN << >>
             ELSE SubSeq(data, CHOOSE i \in solid : \A j \in solid : i <= j,
                               CHOOSE i \in solid : \A j \in solid : i >= j)
    IN IF /\ t # << >>
          /\ t[1].c = "{"
          /\ t[1].obj # << >>
          /\ t \in { jsonText(canonical, t[1].obj[1]) : canonical \in BOOLEAN }
       THEN [ok |-> TRUE, value |-> t[1].obj[1]]
       ELSE [ok |-> FALSE, value |-> JsonObject(FALSE, "absent", << >>)]

\* ------------------------------------------------ buildCommonResponses
\* a streamed response leaving out the empty body
buildCommonResponsesDroppingEmpty(bodyBytes, byteLimit, setEos) ==
    IF Len(bodyBytes) = 0 THEN << >>
    ELSE [i \in 1..((Len(bodyBytes) + byteLimit - 1) \div byteLimit) |->
            [Body |-> SubSeq(bodyBytes, (i - 1) * byteLimit + 1,
                             IF i * byteLimit < Len(bodyBytes)
                             THEN i * byteLimit ELSE Len(bodyBytes)),
             EndOfStream |-> setEos /\ i * byteLimit >= Len(bodyBytes)]]

\* buildCommonResponses(bodyBytes, byteLimit, setEos): the body cut into
\* pieces of at most byteLimit bytes, the last of which carries the
\* end-of-stream flag; an empty body gives one empty piece carrying the flag
buildCommonResponses(bodyBytes, byteLimit, setEos) ==
    IF Len(bodyBytes) = 0 THEN << [Body |-> << >>, EndOfStream |-> setEos] >>
    ELSE [i \in 1..((Len(bodyBytes) + byteLimit - 1) \div byteLimit) |->
            [Body |-> SubSeq(bodyBytes, (i - 1) * byteLimit + 1,
                             IF i * byteLimit < Len(bodyBytes)
                             THEN i * byteLimit ELSE Len(bodyBytes)),
             EndOfStream |-> setEos /\ i * byteLimit >= Len(bodyBytes)]]

\* ------------------------------------------ generateResponseBodyResponses
\* the six members the rewriter writes into a usage object
Telemetry(ctx) ==
    [ttft_ms |-> ctx.TTFT,
     predicted_ttft_ms |-> ctx.PredictedTTFT,
     tpot_observations_ms |-> ctx.TPOTObservations,
     predicted_tpot_observations_ms |-> ctx.PredictedTPOTObservations,
     avg_tpot_ms |-> ctx.AvgTPOT,
     avg_predicted_tpot_ms |-> ctx.AvgPredictedTPOT]

\* the usage object left as it came
withTelemetryOmitted(value, ctx) == value

\* usage[...] = reqCtx....: only when usage is an object
withTelemetry(value, ctx) ==
    IF value.usage.kind = "object"
    THEN [value EXCEPT !.usage.fields = Telemetry(ctx) @@ @]
    ELSE value

\* the event taken as its own payload
payloadUntrimmed(ev) == ev

\* payload := strings.TrimPrefix(ev, "data: ")
payloadOf(ev) == TrimPrefix(ev, streamingRespPrefix)

\* an event whose payload is not JSON left out of the rebuilt body
rewriteEventDroppingUnparsed(ev, ctx) ==
    IF ~HasPrefix(ev, streamingRespPrefix) THEN << >>
    ELSE LET payload == payloadOf(ev)
             parsed == jsonUnmarshal(payload)
         IN IF payload = DoneMsg THEN streamingEndMsg \o EventSeparator
            ELSE IF parsed.ok
            THEN streamingRespPrefix
                   \o jsonMarshal(withTelemetry(parsed.value, ctx))
                   \o EventSeparator
            ELSE << >>

\* what one event of the body adds to the rebuilt body
rewriteEvent(ev, ctx) ==
    IF ~HasPrefix(ev, streamingRespPrefix) THEN << >>
    ELSE LET payload == payloadOf(ev)
             parsed == jsonUnmarshal(payload)
         IN IF payload = DoneMsg THEN streamingEndMsg \o EventSeparator
            ELSE streamingRespPrefix
                   \o (IF parsed.ok
                       THEN jsonMarshal(withTelemetry(parsed.value, ctx))
                       ELSE payload)
                   \o EventSeparator

\* the rebuilt body of the streaming branch: what the events of the body
\* add, in order
rebuilt(responseBodyBytes, ctx) ==
    LET evs == Split(responseBodyBytes, EventSeparator)
        RECURSIVE upTo(_)
        upTo(n) == IF n = 0 THEN << >>
                   ELSE upTo(n - 1) \o rewriteEvent(evs[n], ctx)
    IN upTo(Len(evs))

generateResponseBodyResponses(responseBodyBytes, setEoS, ctx) ==
    IF ctx.ModelServerStreaming
    THEN buildCommonResponses(rebuilt(responseBodyBytes, ctx), bodyByteLimit, setEoS)
    ELSE buildCommonResponses(responseBodyBytes, bodyByteLimit, setEoS)

\* --------------------------------------------------- parseRespForUsage
\* json.Unmarshal(content, &response): false when content is not JSON;
\* a usage object sets the fields it names, the others keep their values
unmarshalUsage(content, usage) ==
    LET parsed == jsonUnmarshal(content)
        f == parsed.value.usage.fields
        Field(fields, key, old) == IF key \in DOMAIN fields THEN fields[key] ELSE old
    IN IF parsed.ok /\ parsed.value.usage.kind = "object"
       THEN [PromptTokens |-> Field(f, "prompt_tokens", usage.PromptTokens),
             CompletionTokens |-> Field(f, "completion_tokens", usage.CompletionTokens),
             TotalTokens |-> Field(f, "total_tokens", usage.TotalTokens)]
       ELSE usage

\* response := ResponseBody{}, then every data line other than [DONE] is
\* unmarshalled into it
parseRespForUsage(responseText) ==
    LET lines == Split(responseText, << LF >>)
        RECURSIVE upTo(_)
        upTo(n) ==
            IF n = 0
            THEN [PromptTokens |-> 0, CompletionTokens |-> 0, TotalTokens |-> 0]
            ELSE LET content == TrimPrefix(lines[n], streamingRespPrefix)
                 IN IF ~HasPrefix(lines[n], streamingRespPrefix) \/ content = DoneMsg
                    THEN upTo(n - 1)
                    ELSE unmarshalUsage(content, upTo(n - 1))
    IN [Usage |-> upTo(Len(lines))]

\* -------------------------------------------------- response body inputs
\* the JSON objects a model server sends: without usage, with the usage
\* object of a completion, with a usage object that already names ttft_ms
JsonValues ==
    { JsonObject(TRUE, "absent", << >>),
      JsonObject(TRUE, "null", << >>),
      JsonObject(TRUE, "object", [prompt_tokens |-> 3, completion_tokens |-> 4,
                                  total_tokens |-> 7]),
      JsonObject(FALSE, "object", [prompt_tokens |-> 1, completion_tokens |-> 1,
                                   total_tokens |-> 2, ttft_ms |-> 9]) }

RECURSIVE Concat(_)
Concat(seqs) == IF seqs = << >> THEN << >> ELSE Head(seqs) \o Concat(Tail(seqs))

\* A body message: up to MaxFrames whole events, then an end.  What follows
\* "data: " in an event is [DONE], text that is not JSON, or a JSON object
\* written with white space; a line that is not a data line may stand in
\* place of an event.  The message ends after a whole event or inside the
\* next one (a lone newline, an event cut inside its separator, a JSON
\* object cut after its first bytes).
ResponseBodies ==
    LET Payloads ==
            { DoneMsg, << B("x") >> } \cup { jsonText(FALSE, v) : v \in JsonValues }
        Frames ==
            { streamingRespPrefix \o p \o EventSeparator : p \in Payloads }
              \cup { << B("x") >> \o EventSeparator }
        Tails ==
            { << >>, << LF >>,
              streamingEndMsg \o << LF >>,
              streamingRespPrefix \o << B("x"), LF >>,
              streamingRespPrefix
                \o SubSeq(jsonText(FALSE, JsonObject(TRUE, "absent", << >>)), 1, 2) }
    IN { Concat(frames) \o tail :
           frames \in SeqsUpTo(Frames, MaxFrames), tail \in Tails }

\* The first body message of a streamed response, and what the model
\* server has still to send after it (rest): either one of the bodies above,
\* with or without the end-of-stream flag, or the first part of a stream of
\* whole data events ended by [DONE], cut at any byte, the second part
\* following as the last message.
FirstMessages ==
    LET Events ==
            { streamingRespPrefix \o p \o EventSeparator :
                p \in { << B("x") >> } \cup { jsonText(FALSE, v) : v \in JsonValues } }
        Streams ==
            { Concat(evs) \o streamingEndMsg \o EventSeparator :
                evs \in SeqsUpTo(Events, MaxFrames - 1) }
    IN { [Body |-> b, rest |-> << >>, EndOfStream |-> eos] :
           b \in ResponseBodies, eos \in BOOLEAN }
         \cup UNION { { [Body |-> SubSeq(st, 1, k),
                         rest |-> SubSeq(st, k + 1, Len(st)),
                         EndOfStream |-> FALSE] : k \in 1..(Len(st) - 1) } :
                       st \in Streams }

\* -------------------------------------------- HandleResponseBodyModelStreaming
\* a body message of the model server's streamed response arrives: the
\* usage capture, then the Director's HandleResponseBodyChunk (before and
\* emitted keep what came and what was emitted in the earlier messages)
HandleResponseBodyModelStreaming ==
    /\ err = NoError
    /\ reqCtx.ModelServerStreaming
    /\ \E m \in (IF responseBody = Nil THEN FirstMessages
                  ELSE IF responseBody[1].answered /\ responseBody[1].rest # << >>
                  THEN { [Body |-> responseBody[1].rest, rest |-> << >>,
                          EndOfStream |-> TRUE] }
                  ELSE {}) :
         /\ responseBody' =
              Some([Body |-> m.Body,
                    EndOfStream |-> m.EndOfStream,
                    answered |-> FALSE,
                    rest |-> m.rest,
                    before |-> IF responseBody = Nil THEN << >>
                               ELSE responseBody[1].before \o responseBody[1].Body,
                    emitted |-> IF responseBody = Nil THEN << >>
                                ELSE responseBody[1].emitted
                                       \o Concat([i \in 1..Len(reqCtx.respBodyResp) |->
                                                    reqCtx.respBodyResp[i].Body])])
         /\ HandleResponseBodyChunkOn(
              IF Contains(m.Body, streamingEndMsg)
              THEN [reqCtx EXCEPT !.Usage = parseRespForUsage(m.Body).Usage]
              ELSE reqCtx)

\* reqCtx.respBodyResp = generateResponseBodyResponses(body, endOfStream,
\* reqCtx, logger) for the body message that arrived
GenerateResponseBody ==
    /\ responseBody # Nil
    /\ ~responseBody[1].answered
    /\ responseBody' = Some([responseBody[1] EXCEPT !.answered = TRUE])
    /\ reqCtx' = [reqCtx EXCEPT !.respBodyResp =
                     generateResponseBodyResponses(responseBody[1].Body,
                                                   responseBody[1].EndOfStream,
                                                   reqCtx)]
    /\ UNCHANGED << models, pods, pool, saturated, latencyPredictor, pc, step,
                    err, criticality, candidatePods, scheduleRet, subsetHint,
                    randomVal, calls, trainingLog, headersDone, chunks,
                    bodyChunks, inputs, trainingErr, lastPredict, predictLog,
                    cancelled, events, returned >>

\* ------------------------------------------------------ HandleResponseBody
\* usage := Usage{...} of a response whose usage member is not nil: the
\* type assertions panic when usage is an object without one of the three
\* token counts
responseUsage(response, old) ==
    LET f == response.usage.fields
    IN IF response.usage.kind # "object"
       THEN [panic |-> FALSE, Usage |-> old]
       ELSE IF ~({"prompt_tokens", "completion_tokens", "total_tokens"} \subseteq DOMAIN f)
       THEN [panic |-> TRUE, Usage |-> old]
       ELSE [panic |-> FALSE,
             Usage |-> [PromptTokens |-> f["prompt_tokens"],
                        CompletionTokens |-> f["completion_tokens"],
                        TotalTokens |-> f["total_tokens"]]]

\* the whole response of a model server that does not stream
HandleResponseBody ==
    /\ pc = "handled"
    /\ err = NoError
    /\ headersDone = 1
    /\ ~reqCtx.ModelServerStreaming
    /\ responseBody = Nil
    /\ \E response \in JsonValues :
         LET responseBytes == jsonMarshal(response)
             u == responseUsage(response, reqCtx.Usage)
             ctx1 == [reqCtx EXCEPT !.Usage = u.Usage,
                                    !.ResponseSize = Len(responseBytes),
                                    !.ResponseComplete = TRUE]
         IN /\ responseBody' = Some([Body |-> responseBytes, EndOfStream |-> TRUE,
                                     answered |-> TRUE])
            /\ err' = IF u.panic THEN Panic ELSE err
            /\ reqCtx' = IF u.panic THEN reqCtx
                         ELSE [ctx1 EXCEPT !.respBodyResp =
                                 generateResponseBodyResponses(responseBytes, TRUE, ctx1)]
    /\ UNCHANGED << models, pods, pool, saturated, latencyPredictor, pc, step,
                    criticality, candidatePods, scheduleRet, subsetHint,
                    randomVal, calls, trainingLog, headersDone, chunks,
                    bodyChunks, inputs, trainingErr, lastPredict, predictLog,
                    cancelled, events, returned >>

\* ------------------------------------------------ the response body alone
\* One scheduled request whose response body is handled: the model server
\* streams or not; the streamed body is one message that holds up to
\* MaxFrames events and may end inside an event, or a stream cut into two
\* messages.
InitRewrite ==
    /\ models = [n \in ModelNames |-> IF n = "m"
                                      THEN Some(InferenceModel(Critical, << >>)) ELSE Nil]
    /\ pods = [id \in {2} |-> [Address |-> PodAddress(id), Metrics |-> Metrics1]]
    /\ pool = [synced |-> TRUE, TargetPortNumber |-> 8000]
    /\ saturated = FALSE
    /\ latencyPredictor = TRUE
    /\ bodyChunks = 2
    /\ inputs = [LiveInputs EXCEPT !.elapsed = [i \in DOMAIN @ |-> {MaxLatency}],
                                   !.interval = {1}]
    /\ InitRequest
    /\ subsetHint = << >>
    /\ \E streaming \in BOOLEAN :
         reqCtx = [NewRequestContext EXCEPT !.ModelServerStreaming = streaming]

NextRewrite ==
    \/ HandleRequest
    \/ HandleResponseHeaders
    \/ HandleResponseBodyModelStreaming
    \/ GenerateResponseBody
    \/ HandleResponseBody

SpecRewrite == InitRewrite /\ [][NextRewrite]_vars


\* ================================================================ properties
Handled == pc = "handled"

\* HandleRequest got as far as admission control
ReachedAdmission == Handled /\ step \in {"admit", "candidates", "schedule", "prepare"}

\* HandleRequest got as far as the candidate pods
ReachedCandidates == Handled /\ step \in {"candidates", "schedule", "prepare"}

\* the criticality the datastore gives the requested model: that of the
\* registered InferenceModel (Standard when it names none), Sheddable for an
\* unregistered model
RegisteredCriticality ==
    IF models[reqCtx.Model] = Nil THEN Sheddable
    ELSE IF models[reqCtx.Model][1].Criticality = NilCrit THEN Standard
    ELSE models[reqCtx.Model][1].Criticality

\* C1: a request that is not Critical (Standard, Sheddable, a model without
\* criticality, an unregistered model) and meets a saturated detector fails
\* with InferencePoolResourceExhausted; the scheduler and the predictor
\* (Predict, AddTrainingDataBulk) are never called for it, also not by the
\* response handlers run afterwards.
C1_SaturatedNonCriticalIsShed ==
    (ReachedAdmission /\ RegisteredCriticality # Critical /\ saturated)
        => /\ err = InferencePoolResourceExhausted
           /\ calls.IsSaturated = 1
           /\ calls.Schedule = 0
           /\ calls.Predict = 0
           /\ calls.AddTrainingDataBulk = 0

C1_Witness ==
    /\ ReachedAdmission /\ saturated /\ latencyPredictor
    /\ reqCtx.Model = "u"
    /\ err = InferencePoolResourceExhausted
    /\ headersDone = 1 /\ chunks = 1

\* C2: a Critical request is always admitted, saturated or not, without
\* IsSaturated being called; it goes on to candidate selection, and to the
\* scheduler when there are candidates.
C2_CriticalBypassesSaturation ==
    (ReachedAdmission /\ RegisteredCriticality = Critical)
        => /\ calls.IsSaturated = 0
           /\ ReachedCandidates
           /\ calls.PodGetAll + calls.PodList =
                 (IF CandidateRead(reqCtx.Request.Metadata) = "none" THEN 0 ELSE 1)
           /\ (candidatePods # {} => calls.Schedule = 1)

C2_Witness ==
    /\ ReachedAdmission /\ RegisteredCriticality = Critical /\ saturated
    /\ calls.Schedule = 1 /\ err = NoError

\* the pods of the datastore as the scheduler sees them
AllPods == { pods[id] : id \in DOMAIN pods }

EmptySubsetList ==
    /\ reqCtx.Request.Metadata.ns = "map"
    /\ reqCtx.Request.Metadata.key = "list"
    /\ Len(reqCtx.Request.Metadata.list) = 0

\* C4: a request whose subset list is empty, or whose filter finds no
\* candidate pod, fails at candidate selection with ServiceUnavailable, and
\* Scheduler.Schedule is never called for it.
C4_NoCandidatesIsUnavailable ==
    /\ (Handled /\ EmptySubsetList) => calls.Schedule = 0
    /\ (ReachedCandidates /\ EmptySubsetList) => err = ServiceUnavailable
    /\ (ReachedCandidates /\ candidatePods = {})
          => (err = ServiceUnavailable /\ calls.Schedule = 0 /\ scheduleRet = Nil)

C4_Witness ==
    /\ ReachedCandidates /\ EmptySubsetList
    /\ err = ServiceUnavailable /\ calls.Schedule = 0
    /\ headersDone = 1

\* Scheduler.Schedule was called and returned an error
ScheduleFailed == Handled /\ scheduleRet # Nil /\ scheduleRet[1].err

\* C5: when Scheduler.Schedule returns an error (for an admitted request
\* with candidates), HandleRequest fails with InferencePoolResourceExhausted,
\* neither prepareRequest nor a PreRequest plugin runs, and TargetPod,
\* TargetEndpoint and SchedulingResult stay unset.
C5_ScheduleErrorIsExhausted ==
    ScheduleFailed
        => /\ err = InferencePoolResourceExhausted
           /\ candidatePods # {}
           /\ calls.prepareRequest = 0
           /\ calls.PreRequest = 0
           /\ reqCtx.TargetPod = Nil
           /\ reqCtx.TargetEndpoint = << >>
           /\ reqCtx.SchedulingResult = Nil

C5_Witness ==
    /\ ScheduleFailed
    /\ err = InferencePoolResourceExhausted
    /\ calls.Schedule = 1
    /\ Cardinality(candidatePods) = 2

\* the scheduler returned, without error, a result that has no usable
\* primary profile: nil, an empty map, no entry for PrimaryProfileName, or
\* an entry without TargetPod
MalformedResult(result) ==
    \/ result = Nil
    \/ DOMAIN result[1].ProfileResults = {}
    \/ result[1].PrimaryProfileName \notin DOMAIN result[1].ProfileResults
    \/ result[1].ProfileResults[result[1].PrimaryProfileName].TargetPod = Nil

\* C6: for every result the scheduler returns without error that lacks the
\* primary profile or its TargetPod, prepareRequest fails with Internal; it
\* neither crashes nor sets a target.
C6_MalformedResultIsInternal ==
    (Handled /\ scheduleRet # Nil /\ ~scheduleRet[1].err
        /\ MalformedResult(scheduleRet[1].result))
        => /\ err = Internal
           /\ reqCtx.TargetPod = Nil
           /\ reqCtx.TargetEndpoint = << >>

\* C7: after HandleRequest, TargetEndpoint is set iff the request was
\* scheduled successfully; it is then the address of the primary profile's
\* target pod joined with the pool's target port, and on every failure it is
\* unset.
C7_TargetEndpointIffScheduled ==
    Handled =>
        /\ (reqCtx.TargetEndpoint # << >>) <=> (err = NoError)
        /\ err = NoError =>
              /\ scheduleRet # Nil /\ ~scheduleRet[1].err
              /\ pool.synced
              /\ reqCtx.TargetEndpoint =
                    JoinHostPort(PrimaryTargetPod(scheduleRet[1].result[1]).Address,
                                 Itoa(pool.TargetPortNumber))
              /\ PrimaryTargetPod(scheduleRet[1].result[1]) \in candidatePods

C7_Witness ==
    /\ Handled /\ err = NoError
    /\ reqCtx.TargetEndpoint = <<"1", "0", ":", "8", "0", "0", "0">>
    /\ DOMAIN scheduleRet[1].result[1].ProfileResults = {"p1", "p2"}
    /\ scheduleRet[1].result[1].ProfileResults["p2"].TargetPod[1].Address = Addr6

\* C8: a body without a string-valued model field fails with BadRequest
\* before any model lookup, saturation check, pod listing or scheduler call.
C8_MissingModelIsBadRequest ==
    (Handled /\ reqCtx.Request.Body.modelKind # "string")
        => /\ err = BadRequest
           /\ step = "parse"
           /\ calls.ModelGet = 0
           /\ calls.RandomWeightedDraw = 0
           /\ calls.IsSaturated = 0
           /\ calls.PodGetAll = 0
           /\ calls.PodList = 0
           /\ calls.Schedule = 0

C8_Witness ==
    /\ Handled /\ reqCtx.Request.Body.modelKind = "other"
    /\ err = BadRequest
    /\ chunks = 1

\* the TargetModels of the requested model, empty for an unregistered model
RegisteredTargets ==
    IF models[reqCtx.Model] = Nil THEN << >>
    ELSE models[reqCtx.Model][1].TargetModels

\* C9: model resolution.  With TargetModels, ResolvedTargetModel is the name
\* of one of the targets, and body.model and SchedulingRequest.TargetModel
\* hold it, except that an empty name gives BadConfiguration and leaves
\* body.model alone; without TargetModels (or for an unregistered model)
\* ResolvedTargetModel is the requested model and body.model is unchanged.
C9_ModelResolution ==
    (Handled /\ step # "parse") =>
        /\ RegisteredTargets # << >> =>
              /\ \E i \in 1..Len(RegisteredTargets) :
                    reqCtx.ResolvedTargetModel = RegisteredTargets[i].Name
              /\ reqCtx.ResolvedTargetModel # "" =>
                    /\ reqCtx.Request.Body.model = reqCtx.ResolvedTargetModel
                    /\ reqCtx.SchedulingRequest # Nil
                    /\ reqCtx.SchedulingRequest[1].TargetModel = reqCtx.ResolvedTargetModel
              /\ reqCtx.ResolvedTargetModel = "" =>
                    /\ err = BadConfiguration
                    /\ reqCtx.Request.Body.model = reqCtx.Model
        /\ RegisteredTargets = << >> =>
              /\ reqCtx.ResolvedTargetModel = reqCtx.Model
              /\ reqCtx.Request.Body.model = reqCtx.Model

\* the TargetModels list the draw is applied to
DrawTargets == models["m"][1].TargetModels

\* C10: over a list in which some target, at whatever position, has a nil
\* weight, the draw does not fail and returns the name of the target at the
\* index its random source gives, any index of the list being possible.
C10_NilWeightDrawsUniformly ==
    (pc = "drawn" /\ HasNilWeight(DrawTargets))
        => /\ err = NoError
           /\ randomVal \in 0..(Len(DrawTargets) - 1)
           /\ reqCtx.ResolvedTargetModel = DrawTargets[randomVal + 1].Name

\* the sum of the first i weights of a list without nil weight
RECURSIVE RunningSum(_, _)
RunningSum(targets, i) ==
    IF i = 0 THEN 0 ELSE RunningSum(targets, i - 1) + targets[i].Weight[1]

\* the first target whose running weight sum exceeds r
FirstExceeding(targets, r) ==
    CHOOSE i \in 1..Len(targets) :
        /\ RunningSum(targets, i) > r
        /\ \A j \in 1..(i - 1) : RunningSum(targets, j) <= r

\* the draw is over a list without nil weight whose weights sum to more
\* than zero
WeightedDraw ==
    /\ pc = "drawn"
    /\ ~HasNilWeight(DrawTargets)
    /\ RunningSum(DrawTargets, Len(DrawTargets)) > 0

\* C11: over a list whose weights are all non-nil and sum to total > 0, the
\* draw returns, for the value r in [0, total) its random source gave, the
\* name of the first target whose running weight sum exceeds r; over all
\* values of r exactly w_i of them select target i, so a zero-weight target
\* is never selected and the empty name is never returned.
C11_WeightedDrawFollowsWeights ==
    WeightedDraw =>
        LET total == RunningSum(DrawTargets, Len(DrawTargets))
        IN /\ err = NoError
           /\ randomVal \in 0..(total - 1)
           /\ reqCtx.ResolvedTargetModel =
                 DrawTargets[FirstExceeding(DrawTargets, randomVal)].Name
           /\ reqCtx.ResolvedTargetModel # ""
           /\ \A i \in 1..Len(DrawTargets) :
                 /\ Cardinality({ r \in 0..(total - 1) :
                        RandomWeightedDraw(models["m"][1], r) =
                            [panic |-> FALSE, name |-> DrawTargets[i].Name] })
                      = DrawTargets[i].Weight[1]
                 /\ DrawTargets[i].Weight[1] = 0
                      => reqCtx.ResolvedTargetModel # DrawTargets[i].Name

\* a draw over weights (0, 2, 1) that passed the zero-weight target and
\* the second one
C11_Witness ==
    /\ WeightedDraw
    /\ Len(DrawTargets) = 3
    /\ DrawTargets[1].Weight[1] = 0
    /\ DrawTargets[2].Weight[1] = 2
    /\ DrawTargets[3].Weight[1] = 1
    /\ randomVal = 2
    /\ reqCtx.ResolvedTargetModel = DrawTargets[3].Name

\* the request was scheduled and a predictor is configured
Predicting == Handled /\ latencyPredictor /\ UsableTarget(reqCtx)

\* C12: whatever the response handlers have seen, the request holds at most
\* maxSampledTokens + 1 predicted TPOT observations.
C12_PredictedObservationsCapped ==
    Len(reqCtx.PredictedTPOTObservations) <= maxSampledTokens + 1

\* the training entry the first-token branch submits (a later-token entry
\* counts at least one generated token)
IsTTFTEntry(entry) == entry.NumTokensGenerated = 0

\* C13: only the first body chunk of a request takes the first-token
\* branch: no later chunk submits a TTFT entry or sets GeneratedTokenCount
\* back to 1, whatever the elapsed times measured.
C13_FirstTokenBranchOnce ==
    Predicting =>
        /\ \A i \in 2..Len(trainingLog) : ~IsTTFTEntry(trainingLog[i])
        /\ reqCtx.GeneratedTokenCount = chunks

\* C14: for a scheduled request with a predictor, TTFT > 0 exactly when a
\* body chunk has been processed.
C14_TTFTPositiveIffChunk ==
    Predicting => (reqCtx.TTFT > 0 <=> chunks >= 1)

\* a later-token entry
IsTPOTEntry(entry) == entry.ActualTTFT = 0 /\ entry.NumTokensGenerated >= 1

\* C15: for a scheduled request with a predictor, after N body chunks N
\* training entries have been submitted, the first a TTFT entry and each
\* of the others a TPOT entry, whatever the sampler decided and whichever
\* predictions or submissions failed.
C15_OneEntryPerChunk ==
    Predicting =>
        /\ calls.AddTrainingDataBulk = chunks
        /\ Len(trainingLog) = chunks
        /\ \A i \in 1..Len(trainingLog) :
              IF i = 1 THEN IsTTFTEntry(trainingLog[i]) /\ ~IsTPOTEntry(trainingLog[i])
              ELSE IsTPOTEntry(trainingLog[i])

\* the two shapes of a training entry
TTFTShape(entry) == entry.ActualTPOT = 0 /\ entry.NumTokensGenerated = 0
TPOTShape(entry) == entry.ActualTTFT = 0 /\ entry.NumTokensGenerated >= 1

\* C16: every submitted training entry has exactly one of the two shapes,
\* a TPOT entry counts GeneratedTokenCount - 1 generated tokens when it is
\* submitted, and no entry carries both an actual TTFT and an actual TPOT.
C16_TrainingEntryShapes ==
    /\ \A i \in 1..Len(trainingLog) :
          /\ TTFTShape(trainingLog[i]) # TPOTShape(trainingLog[i])
          /\ ~(trainingLog[i].ActualTTFT > 0 /\ trainingLog[i].ActualTPOT > 0)
    /\ Len(trainingLog) >= 1 =>
          LET last == trainingLog[Len(trainingLog)]
          IN IF TPOTShape(last)
             THEN last.NumTokensGenerated = reqCtx.GeneratedTokenCount - 1
             ELSE reqCtx.GeneratedTokenCount = 1

\* a TTFT entry with a measured TTFT followed by two TPOT entries, the
\* second with a measured latency
C16_Witness ==
    /\ Len(trainingLog) = 3
    /\ TTFTShape(trainingLog[1]) /\ trainingLog[1].ActualTTFT > 0
    /\ TPOTShape(trainingLog[2])
    /\ TPOTShape(trainingLog[3]) /\ trainingLog[3].ActualTPOT > 0
    /\ trainingLog[3].NumTokensGenerated = 2

\* the arithmetic mean of a sequence of integers, 0 for the empty sequence
RECURSIVE SeqSum(_)
SeqSum(seq) == IF seq = << >> THEN 0 ELSE Head(seq) + SeqSum(Tail(seq))

Mean(seq) == IF seq = << >> THEN Zero ELSE Norm(SeqSum(seq), Len(seq))

\* C17: AvgTPOT is the arithmetic mean of TPOTObservations and
\* AvgPredictedTPOT the arithmetic mean of PredictedTPOTObservations, 0 for
\* an empty sequence, after any sequence of body chunks.
C17_AveragesAreMeans ==
    /\ reqCtx.AvgTPOT = Mean(reqCtx.TPOTObservations)
    /\ reqCtx.AvgPredictedTPOT = Mean(reqCtx.PredictedTPOTObservations)

\* three observations of each kind whose means are no integers
C17_Witness ==
    /\ Len(reqCtx.TPOTObservations) = 3
    /\ Len(reqCtx.PredictedTPOTObservations) = 3
    /\ reqCtx.AvgTPOT.den = 3
    /\ reqCtx.AvgPredictedTPOT.den = 3

\* the prompt ExtractPromptFromRequestBody found in the request body
RequestPrompt == reqCtx.Request.Body.prompt[1]

\* the TTFT predictions made so far
TTFTPredictions == { i \in 1..Len(predictLog) : predictLog[i].type = "TTFT" }

LastRecordedPrediction ==
    IF chunks = 0 THEN reqCtx.PredictedTTFT
    ELSE reqCtx.PredictedTPOTObservations[Len(reqCtx.PredictedTPOTObservations)]

\* C19: when Predict gave the last handler an error, a nil response or a
\* negative value, the handler recorded 0 for that prediction; no recorded
\* prediction is negative; the response handlers return no error, and
\* every chunk, also after a failed prediction, is processed: one training
\* entry per chunk and a first-token prediction recorded.
C19_PredictorFailureRecordsZero ==
    Predicting =>
        /\ err = NoError
        /\ lastPredict = "bad" => LastRecordedPrediction = 0
        /\ reqCtx.PredictedTTFT >= 0
        /\ \A i \in 1..Len(reqCtx.PredictedTPOTObservations) :
              reqCtx.PredictedTPOTObservations[i] >= 0
        /\ calls.AddTrainingDataBulk = chunks
        /\ chunks >= 1 => Len(reqCtx.PredictedTPOTObservations) >= 1
        /\ reqCtx.GeneratedTokenCount >= 1 <=> chunks >= 1

\* the third chunk's sampled prediction failed after two that succeeded,
\* and the chunk was processed
C19_Witness ==
    /\ Predicting
    /\ chunks = 3
    /\ lastPredict = "bad"
    /\ reqCtx.PredictedTPOTObservations = << MaxPrediction, MaxPrediction, 0 >>
    /\ Len(trainingLog) = 3

\* C20: a body chunk whose AddTrainingDataBulk call returns an error
\* returns no error and leaves the request context as the same chunk with
\* a successful submission would: the same prediction is made and the same
\* observations, averages, token count, LastTokenTimestamp and
\* LastSeenMetrics are stored.
C20_TrainingErrorChangesNothing ==
    [][ (chunks' = chunks + 1 /\ Predicting /\ trainingErr')
          => /\ err' = err
             /\ \E elapsed \in inputs.elapsed[chunks + 1], ret \in inputs.predict,
                   interval \in inputs.interval :
                  LET metrics == PrimaryTargetPod(reqCtx.SchedulingResult[1]).Metrics
                      ok == bodyChunk(reqCtx, metrics, elapsed, ret, interval, FALSE)
                  IN /\ reqCtx' = ok.ctx
                     /\ calls'.Predict = calls.Predict + ok.Predict
                     /\ lastPredict' = PredictOutcome(ok.Predict, ret, "TPOT")
                     /\ trainingLog' = Append(trainingLog, ok.entry) ]_vars

\* the second chunk's submission failed, and the chunk recorded its
\* latency, made its sampled prediction and refreshed the metrics
C20_Witness ==
    /\ Predicting
    /\ chunks = 2
    /\ trainingErr
    /\ reqCtx.GeneratedTokenCount = 2
    /\ reqCtx.TPOTObservations = << MaxLatency >>
    /\ reqCtx.PredictedTPOTObservations = << 0, MaxPrediction >>
    /\ lastPredict = "ok"
    /\ reqCtx.LastTokenTimestamp = reqCtx.RequestReceivedTimestamp + 2 * MaxLatency
    /\ reqCtx.LastSeenMetrics = Metrics1


\* the datastore's current metrics of the pod the primary profile targets
DatastoreMetrics ==
    LET address == PrimaryTargetPod(reqCtx.SchedulingResult[1]).Address
    IN pods[CHOOSE id \in DOMAIN pods : pods[id].Address = address].Metrics

\* C21: once the request's context is cancelled, no step calls Predict or
\* AddTrainingDataBulk: a headers or body-chunk event handled after the
\* cancellation makes neither call.
C21_NoPredictorCallsAfterCancel ==
    [][ cancelled => /\ calls'.Predict = calls.Predict
                     /\ calls'.AddTrainingDataBulk = calls.AddTrainingDataBulk ]_vars

C26_ContextReturnedOnEveryOutcome ==
    (Handled /\ err # Panic /\ headersDone = 0) =>
        /\ returned = Some(reqCtx)
        /\ returned[1].Request.RequestId \in RequestIds
        /\ step # "parse" => returned[1].Model \in ModelNames
        /\ step \in {"admit", "candidates", "schedule", "prepare"} =>
              /\ returned[1].Model \in ModelNames
              /\ returned[1].ResolvedTargetModel # ""
              /\ returned[1].SchedulingRequest # Nil
              /\ returned[1].SchedulingRequest[1].TargetModel
                    = returned[1].ResolvedTargetModel
              /\ returned[1].SchedulingRequest[1].RequestId
                    = returned[1].Request.RequestId

\* the scheduler failed, and the context came back with the model, the
\* resolved target model and the scheduling request
C26_Witness ==
    /\ Handled
    /\ err = InferencePoolResourceExhausted
    /\ step = "schedule"
    /\ returned # Nil
    /\ returned[1].Model = "m"
    /\ returned[1].ResolvedTargetModel # ""
    /\ returned[1].SchedulingRequest # Nil

\* every a of seq comes before every b of seq
Precedes(seq, a, b) ==
    \A i, j \in 1..Len(seq) : (seq[i] = a /\ seq[j] = b) => i < j

Occurrences(seq, a) == Cardinality({ i \in 1..Len(seq) : seq[i] = a })

\* the metrics a prediction request or a training entry carries
CarriesMetrics(r, metrics) ==
    /\ r.KVCachePercentage = metrics.KVCacheUsagePercent
    /\ r.NumRequestWaiting = metrics.WaitingQueueSize
    /\ r.NumRequestRunning = metrics.RunningQueueSize

\* C27: in every body chunk the training entry is submitted before any
\* Predict call of the chunk, and the chunk's Predict call comes before its
\* refresh of LastSeenMetrics, which ends the chunk and so comes before the
\* next chunk's Predict call; the headers refresh LastSeenMetrics before
\* the first chunk, whose training entry and forced prediction carry the
\* metrics the headers stored.
C27_TrainingThenPredictThenRefresh ==
    [][ Predicting =>
          /\ chunks' # chunks =>
                /\ Occurrences(events', "AddTrainingDataBulk") = 1
                /\ Occurrences(events', "LastSeenMetrics") = 1
                /\ Occurrences(events', "Predict") = calls'.Predict - calls.Predict
                /\ Precedes(events', "AddTrainingDataBulk", "Predict")
                /\ Precedes(events', "Predict", "LastSeenMetrics")
                /\ events'[Len(events')] = "LastSeenMetrics"
          /\ headersDone' # headersDone =>
                /\ chunks = 0
                /\ Occurrences(events', "LastSeenMetrics") = 1
                /\ CarriesMetrics(predictLog'[Len(predictLog')].req,
                                  reqCtx'.LastSeenMetrics)
          /\ (chunks = 0 /\ chunks' = 1) =>
                /\ headersDone = 1
                /\ "LastSeenMetrics" \in { events[i] : i \in 1..Len(events) }
                /\ CarriesMetrics(trainingLog'[1], reqCtx.LastSeenMetrics)
                /\ IsTTFTEntry(trainingLog'[1])
                /\ predictLog'[Len(predictLog')].type = "TPOT"
                /\ CarriesMetrics(predictLog'[Len(predictLog')].req,
                                  reqCtx.LastSeenMetrics) ]_vars

\* the second chunk submitted its entry, made the sampled prediction and
\* then refreshed the metrics
C27_Witness ==
    /\ Predicting
    /\ chunks = 2
    /\ events = << "AddTrainingDataBulk", "Predict", "LastSeenMetrics" >>
    /\ Len(trainingLog) = 2
    /\ reqCtx.LastSeenMetrics = Metrics1

\* C29: a body chunk after the first appends the inter-token latency to
\* TPOTObservations exactly when the token count it leaves is 2 or the
\* sampler asks for a prediction at that count; it then appends one
\* observation only and updates AvgTPOT, and otherwise leaves
\* TPOTObservations and AvgTPOT as they were.
C29_ObservationIffSecondOrSampled ==
    [][ (Predicting /\ chunks >= 1 /\ chunks' = chunks + 1) =>
          LET count == reqCtx'.GeneratedTokenCount
              sampler == reqCtx.TokenSampler[1]
              latency == reqCtx'.LastTokenTimestamp - reqCtx.LastTokenTimestamp
              appended == reqCtx'.TPOTObservations # reqCtx.TPOTObservations
          IN /\ appended <=> (count = 2 \/ ShouldPredict(sampler, count))
             /\ appended =>
                   /\ reqCtx'.TPOTObservations
                         = Append(reqCtx.TPOTObservations, latency)
                   /\ reqCtx'.AvgTPOT = Mean(reqCtx'.TPOTObservations)
             /\ ~appended => reqCtx'.AvgTPOT = reqCtx.AvgTPOT ]_vars

\* the second chunk was both the second token and a sampled one, and
\* recorded a single observation
C29_Witness ==
    /\ Predicting
    /\ chunks = 2
    /\ reqCtx.GeneratedTokenCount = 2
    /\ reqCtx.TokenSampler[1].sampleCount = 1
    /\ reqCtx.TPOTObservations = << MaxLatency >>

\* C30: after every body chunk from the second on, TPOTObservations and
\* PredictedTPOTObservations have the same length.
C30_ObservationsAligned ==
    (Predicting /\ chunks >= 2) =>
        Len(reqCtx.TPOTObservations) = Len(reqCtx.PredictedTPOTObservations)

\* ---------------------------------------------------- the response body
\* a streamed body message has been rewritten
StreamAnswered ==
    /\ responseBody # Nil
    /\ responseBody[1].answered
    /\ reqCtx.ModelServerStreaming

\* the events of a body that are data events
DataEvents(body) ==
    SelectSeq(Split(body, EventSeparator),
              LAMBDA ev : HasPrefix(ev, streamingRespPrefix))

\* the bytes of the emitted body responses, in order
Emitted ==
    Concat([i \in 1..Len(reqCtx.respBodyResp) |-> reqCtx.respBodyResp[i].Body])

\* a payload that is a JSON object holding a usage object
HasUsageObject(payload) ==
    jsonUnmarshal(payload).ok /\ jsonUnmarshal(payload).value.usage.kind = "object"

\* C22: in streaming mode every data event of the body whose payload is a
\* JSON object with a usage object is emitted with the six telemetry
\* members in its usage object, each equal to the request context's value,
\* and with every other member of the payload and of its usage object as
\* it came; a [DONE] event is emitted as "data: [DONE]" followed by the
\* separator.
C22_UsageEventsCarryTelemetry ==
    StreamAnswered =>
        LET sent == DataEvents(responseBody[1].Body)
            got == Split(Emitted, EventSeparator)
        IN \A i \in 1..Len(sent) :
             LET payload == TrimPrefix(sent[i], streamingRespPrefix)
                 before == jsonUnmarshal(payload)
                 after == jsonUnmarshal(TrimPrefix(got[i], streamingRespPrefix))
             IN /\ i < Len(got)
                /\ HasPrefix(got[i], streamingRespPrefix)
                /\ payload = DoneMsg => got[i] = streamingEndMsg
                /\ HasUsageObject(payload) =>
                      /\ after.ok
                      /\ after.value.usage.kind = "object"
                      /\ after.value.choices = before.value.choices
                      /\ \A k \in DOMAIN Telemetry(reqCtx) :
                            /\ k \in DOMAIN after.value.usage.fields
                            /\ after.value.usage.fields[k] = Telemetry(reqCtx)[k]
                      /\ \A k \in DOMAIN before.value.usage.fields
                                     \ DOMAIN Telemetry(reqCtx) :
                            /\ k \in DOMAIN after.value.usage.fields
                            /\ after.value.usage.fields[k]
                                  = before.value.usage.fields[k]

\* a usage event that named ttft_ms already, followed by [DONE]: the
\* emitted usage holds the measured TTFT, and [DONE] follows unchanged
C22_Witness ==
    /\ StreamAnswered
    /\ reqCtx.TTFT = MaxLatency
    /\ Len(DataEvents(responseBody[1].Body)) = 2
    /\ LET sent == DataEvents(responseBody[1].Body)
           got == Split(Emitted, EventSeparator)
       IN /\ HasUsageObject(TrimPrefix(sent[1], streamingRespPrefix))
          /\ "ttft_ms" \in DOMAIN jsonUnmarshal(TrimPrefix(sent[1],
                                    streamingRespPrefix)).value.usage.fields
          /\ jsonUnmarshal(TrimPrefix(sent[1], streamingRespPrefix))
                .value.usage.fields["ttft_ms"] = 9
          /\ jsonUnmarshal(TrimPrefix(got[1], streamingRespPrefix))
                .value.usage.fields["ttft_ms"] = MaxLatency
          /\ sent[2] = streamingEndMsg
          /\ got[2] = streamingEndMsg

\* a body made only of whole data events, each ended by the separator,
\* none of which holds a usage object
OnlyPlainEvents(body) ==
    LET evs == Split(body, EventSeparator)
    IN /\ evs[Len(evs)] = << >>
       /\ \A i \in 1..(Len(evs) - 1) :
             /\ HasPrefix(evs[i], streamingRespPrefix)
             /\ ~HasUsageObject(TrimPrefix(evs[i], streamingRespPrefix))

\* C23: on a streamed body made only of data events without a usage object
\* and of [DONE] events, rewriting the emitted body again gives the same
\* body responses.
C23_RewriteIdempotent ==
    (StreamAnswered /\ OnlyPlainEvents(responseBody[1].Body)) =>
        generateResponseBodyResponses(Emitted, responseBody[1].EndOfStream, reqCtx)
          = reqCtx.respBodyResp

\* a JSON event written with white space and a [DONE] event were rewritten:
\* the emitted body differs from the one that came and is a fixed point
C23_Witness ==
    /\ StreamAnswered
    /\ OnlyPlainEvents(responseBody[1].Body)
    /\ Len(DataEvents(responseBody[1].Body)) = 2
    /\ jsonUnmarshal(TrimPrefix(DataEvents(responseBody[1].Body)[1],
                                streamingRespPrefix)).ok
    /\ DataEvents(responseBody[1].Body)[2] = streamingEndMsg
    /\ Emitted # responseBody[1].Body
    /\ rebuilt(Emitted, reqCtx) = Emitted

\* a response body has been answered, streamed or not
Answered == responseBody # Nil /\ responseBody[1].answered /\ err # Panic

\* the body the responses are cut from
BodyToEmit ==
    IF reqCtx.ModelServerStreaming
    THEN rebuilt(responseBody[1].Body, reqCtx)
    ELSE responseBody[1].Body

UsageOf(payload) ==
    LET f == jsonUnmarshal(payload).value.usage.fields
    IN [PromptTokens |-> f["prompt_tokens"],
        CompletionTokens |-> f["completion_tokens"],
        TotalTokens |-> f["total_tokens"]]

\* the usage objects found in the data lines of a body
UsagesIn(body) ==
    LET lines == Split(body, << LF >>)
    IN { UsageOf(TrimPrefix(lines[i], streamingRespPrefix)) :
           i \in { j \in 1..Len(lines) :
                     /\ HasPrefix(lines[j], streamingRespPrefix)
                     /\ HasUsageObject(TrimPrefix(lines[j], streamingRespPrefix)) } }

\* C25: when a streamed body message that holds "data: [DONE]" is handled,
\* Usage becomes the token counts of a usage object found in a data line
\* of the message, and ResponseComplete becomes true.
C25_DoneCompletesResponse ==
    [][ (/\ reqCtx.ModelServerStreaming
         /\ responseBody' # Nil
         /\ ~responseBody'[1].answered
         /\ Contains(responseBody'[1].Body, streamingEndMsg))
          => /\ UsagesIn(responseBody'[1].Body) # {}
                   => reqCtx'.Usage \in UsagesIn(responseBody'[1].Body)
             /\ reqCtx'.ResponseComplete ]_vars

\* ------------------------------------------------------------ the sampler
\* the token counts for which a sampled TPOT prediction was asked (the
\* forced prediction of the first-token branch asks for token 1)
SampledTokens ==
    { predictLog[i].req.NumTokensGenerated :
        i \in { j \in 1..Len(predictLog) :
                 /\ predictLog[j].type = "TPOT"
                 /\ predictLog[j].req.NumTokensGenerated > 1 } }

\* the number of sampled TPOT predictions asked
SampledCalls ==
    Cardinality({ j \in 1..Len(predictLog) :
                    /\ predictLog[j].type = "TPOT"
                    /\ predictLog[j].req.NumTokensGenerated > 1 })

\* C31: after every body chunk, while the sampler has taken fewer than
\* maxSampledTokens samples its next sample token lies beyond the tokens
\* generated; a chunk whose token count is the sample token makes the
\* sampled prediction, no token count is sampled twice, and once
\* maxSampledTokens samples are taken no chunk makes a Predict call or
\* changes the sampler.
C31_SamplerProgress ==
    [][ (chunks' # chunks /\ reqCtx'.TokenSampler # Nil) =>
          LET new == reqCtx'.TokenSampler[1]
          IN /\ new.sampleCount < maxSampledTokens
                   => new.nextSampleToken > reqCtx'.GeneratedTokenCount
             /\ new.sampleCount <= maxSampledTokens
             /\ SampledCalls' = Cardinality(SampledTokens')
             /\ new.sampleCount = SampledCalls'
             /\ (/\ reqCtx.TokenSampler # Nil
                 /\ reqCtx.TTFT # 0
                 /\ reqCtx.TokenSampler[1].sampleCount < maxSampledTokens
                 /\ reqCtx'.GeneratedTokenCount = reqCtx.TokenSampler[1].nextSampleToken)
                   => /\ reqCtx'.GeneratedTokenCount \in SampledTokens'
                      /\ new.sampleCount = reqCtx.TokenSampler[1].sampleCount + 1
             /\ (/\ reqCtx.TokenSampler # Nil
                 /\ reqCtx.TokenSampler[1].sampleCount = maxSampledTokens)
                   => /\ calls'.Predict = calls.Predict
                      /\ reqCtx'.TokenSampler = reqCtx.TokenSampler ]_vars

\* with every interval 1 the sampler has taken maxSampledTokens samples, at
\* the tokens 2 .. maxSampledTokens + 1, and a later chunk was handled
\* without a Predict call (the calls are those of the headers, of the first
\* chunk and of the samples)
C31_Witness ==
    /\ reqCtx.TokenSampler # Nil
    /\ reqCtx.TokenSampler[1].sampleCount = maxSampledTokens
    /\ SampledTokens = 2..(maxSampledTokens + 1)
    /\ reqCtx.GeneratedTokenCount > maxSampledTokens + 1
    /\ calls.Predict = maxSampledTokens + 2

\* the sample tokens a seed schedules among the first n tokens: the first is
\* 1 + the first draw, each next one the previous plus the next draw, and
\* no more than maxSampledTokens of them
Schedule(seed, n) ==
    LET RECURSIVE from(_, _)
        from(token, k) ==
            IF token > n \/ k > maxSampledTokens THEN {}
            ELSE {token} \cup from(token + Exp(seed, k + 1), k + 1)
    IN from(1 + Exp(seed, 1), 1)

\* C32: the token counts at which a request makes its sampled TPOT
\* predictions are those its seed schedules among as many tokens as body
\* chunks were handled, whatever else happened in the execution; the
\* sampler, once created, is only changed by RecordPrediction.
C32_SampledTokensFollowSeed ==
    (Predicting /\ chunks >= 1) =>
        /\ reqCtx.TokenSampler # Nil
        /\ SampledTokens = Schedule(inputs.seed, chunks)

\* ------------------------------------------------- the rewriter's events
\* a body made of whole events, each ended by the separator
WholeEvents(body) ==
    LET evs == Split(body, EventSeparator) IN evs[Len(evs)] = << >>

\* what a payload says, apart from the telemetry a rewrite may add: the
\* text itself when it is not JSON
Said(payload) ==
    LET parsed == jsonUnmarshal(payload)
    IN IF ~parsed.ok THEN << "text", payload >>
       ELSE << "json", parsed.value.choices, parsed.value.usage.kind,
               [k \in DOMAIN parsed.value.usage.fields \ DOMAIN Telemetry(reqCtx) |->
                  parsed.value.usage.fields[k]] >>

\* C33: for a streamed body made of whole events, the emitted body holds
\* one event for each event that starts with "data: ", in the order they
\* came, each saying what the one that came said; an event whose payload
\* is not JSON is emitted as it came, and events that do not start with
\* "data: " leave nothing in the emitted body.
C33_OneEventPerDataEvent ==
    (StreamAnswered /\ WholeEvents(responseBody[1].Body)) =>
        LET sent == DataEvents(responseBody[1].Body)
            got == Split(Emitted, EventSeparator)
        IN /\ Len(got) = Len(sent) + 1
           /\ got[Len(got)] = << >>
           /\ \A i \in 1..Len(sent) :
                 /\ HasPrefix(got[i], streamingRespPrefix)
                 /\ Said(TrimPrefix(got[i], streamingRespPrefix))
                       = Said(TrimPrefix(sent[i], streamingRespPrefix))
                 /\ ~jsonUnmarshal(TrimPrefix(sent[i], streamingRespPrefix)).ok
                       => got[i] = sent[i]

\* a line that is not a data line, then a data event whose payload is not
\* JSON: the emitted body is that one event
C33_Witness ==
    /\ StreamAnswered
    /\ WholeEvents(responseBody[1].Body)
    /\ Len(Split(responseBody[1].Body, EventSeparator)) = 3
    /\ ~HasPrefix(responseBody[1].Body, streamingRespPrefix)
    /\ Len(DataEvents(responseBody[1].Body)) = 1
    /\ ~jsonUnmarshal(TrimPrefix(DataEvents(responseBody[1].Body)[1],
                                 streamingRespPrefix)).ok
    /\ DataEvents(responseBody[1].Body)[1] # streamingEndMsg
    /\ Emitted = DataEvents(responseBody[1].Body)[1] \o EventSeparator

\* ---------------------------------------------------- a stream in pieces
\* the model server's stream so far, and what was emitted for it
Upstream == responseBody[1].before \o responseBody[1].Body

Downstream == responseBody[1].emitted \o Emitted

\* a stream made of whole events that all start with "data: "
WellFormed(stream) ==
    LET evs == Split(stream, EventSeparator)
    IN /\ evs[Len(evs)] = << >>
       /\ \A i \in 1..(Len(evs) - 1) : HasPrefix(evs[i], streamingRespPrefix)

\* C34: when the whole of a well-formed stream has been handled, in one
\* body message or cut into two at any byte, the emitted bodies joined
\* hold one data event for each data event of the stream, in order and
\* saying what it said, and Usage holds the token counts the stream
\* reported.
C34_CutsDoNotMatter ==
    (StreamAnswered /\ responseBody[1].rest = << >> /\ WellFormed(Upstream)) =>
        LET sent == DataEvents(Upstream)
            got == DataEvents(Downstream)
        IN /\ Len(got) = Len(sent)
           /\ \A i \in 1..Len(sent) :
                 Said(TrimPrefix(got[i], streamingRespPrefix))
                   = Said(TrimPrefix(sent[i], streamingRespPrefix))
           /\ (Contains(Upstream, streamingEndMsg) /\ UsagesIn(Upstream) # {})
                 => reqCtx.Usage \in UsagesIn(Upstream)

\* the pods a scheduling result names as targets
TargetsOf(result) ==
    IF result = Nil THEN {}
    ELSE { result[1].ProfileResults[n].TargetPod[1] :
             n \in { k \in DOMAIN result[1].ProfileResults :
                        result[1].ProfileResults[k].TargetPod # Nil } }

\* C35: the candidate pods handed to the scheduler carry the metrics the
\* datastore held when they were built; the scheduling result names pods of
\* that list; and a datastore update made between the building and the
\* Schedule call, or after it, changes neither the candidate pods nor the
\* scheduling result, as returned or as kept in the request context.
C35_SchedulerPodsAreSnapshots ==
    [][ /\ (pc = "new" /\ pc' = "filtered")
            => candidatePods'
                 = getCandidatePodsForScheduling(pods, reqCtx'.Request.Metadata)
        /\ (pc = "filtered" /\ pc' = "handled")
            => /\ candidatePods' = candidatePods
               /\ TargetsOf(reqCtx'.SchedulingResult) \subseteq candidatePods
               /\ scheduleRet' # Nil
                     => TargetsOf(scheduleRet'[1].result) \subseteq candidatePods
        /\ pods' # pods
            => /\ candidatePods' = candidatePods
               /\ scheduleRet' = scheduleRet
               /\ reqCtx'.SchedulingResult = reqCtx.SchedulingResult ]_vars

\* the request was scheduled on a pod whose metrics the datastore has since
\* replaced: the scheduling result still carries the earlier ones
C35_Witness ==
    /\ Handled
    /\ UsableTarget(reqCtx)
    /\ PrimaryTargetPod(reqCtx.SchedulingResult[1]) \in candidatePods
    /\ PrimaryTargetPod(reqCtx.SchedulingResult[1]).Metrics # DatastoreMetrics

\* C36: while there is no latency predictor, or the request context holds
\* no scheduling result or no target pod for the primary profile, a body
\* chunk leaves the whole request context as it was and submits no training
\* entry and no prediction, and the response headers leave PredictedTTFT
\* and LastSeenMetrics as they were while every PostResponse plugin still
\* runs.
C36_SkippedHandlersLeaveContext ==
    [][ ~(latencyPredictor /\ UsableTarget(reqCtx))
          => /\ chunks' # chunks
                  => /\ reqCtx' = reqCtx
                     /\ trainingLog' = trainingLog
                     /\ calls'.AddTrainingDataBulk = calls.AddTrainingDataBulk
                     /\ calls'.Predict = calls.Predict
             /\ headersDone' # headersDone
                  => /\ reqCtx'.PredictedTTFT = reqCtx.PredictedTTFT
                     /\ reqCtx'.LastSeenMetrics = reqCtx.LastSeenMetrics
                     /\ calls'.Predict = calls.Predict
                     /\ calls'.PostResponse = calls.PostResponse + NumPlugins ]_vars

\* a predictor is configured, the request holds no scheduling result, and
\* the headers and a body chunk have been handled: the plugins have run,
\* nothing was predicted or submitted
C36_Witness ==
    /\ Handled
    /\ latencyPredictor
    /\ reqCtx.SchedulingResult = Nil
    /\ headersDone = 1
    /\ chunks >= 1
    /\ calls.PostResponse = NumPlugins
    /\ calls.Predict = 0
    /\ trainingLog = << >>

\* C37: for a scheduled request with a predictor, GeneratedTokenCount is
\* the number of body chunks handled so far, and no step lowers it.
C37_TokenCountIsChunkCount ==
    [][ /\ Predicting' => reqCtx'.GeneratedTokenCount = chunks'
        /\ reqCtx'.GeneratedTokenCount >= reqCtx.GeneratedTokenCount ]_vars

\* C38: for a scheduled request with a predictor, once the first body chunk
\* is handled the request holds one predicted TPOT observation for the
\* forced first prediction and one for every sample the sampler has
\* recorded.
C38_ObservationsFollowSampleCount ==
    (Predicting /\ chunks >= 1)
        => /\ reqCtx.TokenSampler # Nil
           /\ Len(reqCtx.PredictedTPOTObservations)
                 = 1 + reqCtx.TokenSampler[1].sampleCount

\* C39: in every state the predicted TTFT and every predicted TPOT
\* observation of the request are at least 0, whether Predict returned an
\* error, a nil response, or a negative, zero or positive value.
C39_PredictionsNonNegative ==
    /\ reqCtx.PredictedTTFT >= 0
    /\ \A i \in DOMAIN reqCtx.PredictedTPOTObservations :
          reqCtx.PredictedTPOTObservations[i] >= 0

\* a request whose TTFT prediction and forced first TPOT prediction are
\* recorded as 0 and whose next prediction came from a response with a
\* negative TTFT and a positive TPOT
C39_Witness ==
    /\ Predicting
    /\ chunks >= 2
    /\ reqCtx.PredictedTTFT = 0
    /\ Len(reqCtx.PredictedTPOTObservations) = 2
    /\ reqCtx.PredictedTPOTObservations[1] = 0
    /\ reqCtx.PredictedTPOTObservations[2] = MaxPrediction
    /\ \E i \in DOMAIN predictLog : predictLog[i].type = "TTFT"

====
